---- MODULE Spec2Model ----
(***************************************************************************)
(* Sport-Dashboard: the Strava fetch script (update_activities.py) and the *)
(* dashboard generator (maak_dashboard.py) as state machines.              *)
(*                                                                         *)
(* Texts are sequences of one-character strings, so that Python's `in`,    *)
(* str.lower() and pandas' str.contains are real substring tests.          *)
(* Numbers are integers: distances in metres on the Strava side and in     *)
(* hundredths of a km in the file, times in seconds, elevation in metres,  *)
(* heart rate in bpm, speeds in tenths of a km/h once multiplied by 3.6.   *)
(***************************************************************************)
EXTENDS Integers, Sequences, FiniteSets, TLC

VARIABLES
    act_type,         \* categorisation: the 'type' field of a Strava activity
    Activiteitstype,  \* categorisation: the 'Activiteitstype' cell of a record
    icon,             \* categorisation: result of get_activity_icon
    in_charts,        \* categorisation: membership of df_charts
    cat_pc,           \* categorisation: "start" | "label" | "done"
    all_activities,   \* update_csv: the activities returned by the API
    csv,              \* the file activities.csv (rows), shared by both scripts
    report,           \* genereer_html_dashboard: the aggregates it computed
    pc,               \* pipeline: "idle" | "updated" | "generated"
    api,              \* update_csv: what the Strava API answers during a run
    upc,              \* update_csv: position in the function
    gear_map,         \* update_csv: gear id -> name, from get_gear_map
    old_gear_data,    \* update_csv: activity id -> gear, from the old file
    page,             \* update_csv: number of the next page to request
    requested,        \* update_csv: the page requests sent, in order
    csv_before,       \* the file as it was when the run started
    runs,             \* number of runs of update_activities.py started
    records,          \* compute_streaks: the dates of the records
    unit,             \* compute_streaks: "day" | "week"
    now,              \* compute_streaks: the reference date
    streaks,          \* compute_streaks: its result
    current_year_records,    \* compare: the records of year Y
    prior_year_records,      \* compare: the records of year Y-1
    reference_day_of_year,   \* compare: the day of the year of the latest record
    is_latest_year,          \* compare: whether Y is the latest year with data
    comparison,       \* compare: its result
    epc,              \* analytics engine: "idle" | "streaks" | "compared"
    env,              \* update_activities.py: the three STRAVA_* environment values
    token_response,   \* update_activities.py: the answer to the token request
    calls,            \* update_activities.py: the token and athlete requests sent
    strava_date,      \* dates: the 'start_date_local' given to format_date
    date_text,        \* dates: what format_date returned
    date_parsed,      \* dates: what robust_date_parser_final read from the file
    dom               \* dashboard.html in a browser: the state of the document

catVars == <<act_type, Activiteitstype, icon, in_charts, cat_pc>>
pipeVars == <<all_activities, csv, report, pc>>
engineVars == <<records, unit, now, streaks, current_year_records, prior_year_records,
                reference_day_of_year, is_latest_year, comparison, epc>>
authVars == <<env, token_response, calls>>
dateVars == <<strava_date, date_text, date_parsed>>
syncVars == <<api, upc, gear_map, old_gear_data, page, requested, csv_before, runs>>
vars == <<act_type, Activiteitstype, icon, in_charts, cat_pc,
          all_activities, csv, report, pc,
          api, upc, gear_map, old_gear_data, page, requested, csv_before, runs,
          records, unit, now, streaks, current_year_records, prior_year_records,
          reference_day_of_year, is_latest_year, comparison, epc,
          env, token_response, calls,
          strava_date, date_text, date_parsed, dom>>

----------------------------------------------------------------------------
(* Bounds *)

MaxWords == 2   \* words in a free-text activity label
MaxRows == 3    \* rows of an exported CSV file
MaxActs == 2    \* activities in the API response
MaxPages == 2   \* pages the API answers before it runs out of activities

----------------------------------------------------------------------------
(* Values: Python None, a missing dict key, pandas NaN, a text, a number *)

None == [k |-> "none"]
Missing == [k |-> "missing"]
NaN == [k |-> "nan"]
Text(s) == [k |-> "text", s |-> s]
Num(v) == [k |-> "num", v |-> v]

IsText(x) == x.k = "text"
IsNum(x) == x.k = "num"
IsNaN(x) == x.k = "nan"

(* dict.get(key, default) on a record of the API: the value when the key is
   present (None included), the default when it is missing *)
DictGet(value, default) == IF value = Missing THEN default ELSE value

----------------------------------------------------------------------------
(* Texts *)

(* one character of str.lower() *)
LowerChar(c) ==
    CASE c = "A" -> "a"
      [] c = "B" -> "b"
      [] c = "C" -> "c"
      [] c = "D" -> "d"
      [] c = "E" -> "e"
      [] c = "F" -> "f"
      [] c = "G" -> "g"
      [] c = "H" -> "h"
      [] c = "I" -> "i"
      [] c = "J" -> "j"
      [] c = "K" -> "k"
      [] c = "L" -> "l"
      [] c = "M" -> "m"
      [] c = "N" -> "n"
      [] c = "O" -> "o"
      [] c = "P" -> "p"
      [] c = "Q" -> "q"
      [] c = "R" -> "r"
      [] c = "S" -> "s"
      [] c = "T" -> "t"
      [] c = "U" -> "u"
      [] c = "V" -> "v"
      [] c = "W" -> "w"
      [] c = "X" -> "x"
      [] c = "Y" -> "y"
      [] c = "Z" -> "z"
      [] OTHER -> c

(* str.lower() *)
Lower(s) == [i \in 1..Len(s) |-> LowerChar(s[i])]

(* Python's `k in s` *)
Contains(s, k) ==
    \E i \in 1..(Len(s) - Len(k) + 1) : SubSeq(s, i, i + Len(k) - 1) = k

(* pandas' str.contains(k, case=False) for a literal k *)
ContainsNoCase(s, k) ==
    \E i \in 1..(Len(s) - Len(k) + 1) :
        \A j \in 1..Len(k) : LowerChar(s[i + j - 1]) = LowerChar(k[j])

(* Python's str() of a cell *)
Str(x) ==
    CASE x = None -> <<"N", "o", "n", "e">>
      [] x = NaN -> <<"n", "a", "n">>
      [] OTHER -> x.s

T_Zwemmen == <<"Z", "w", "e", "m", "m", "e", "n">>
T_VirtueleFietsrit == <<"V", "i", "r", "t", "u", "e", "l", "e", " ", "F", "i", "e", "t", "s", "r", "i", "t">>
T_Fiets == <<"F", "i", "e", "t", "s">>
T_Training == <<"T", "r", "a", "i", "n", "i", "n", "g">>
T_Wandel == <<"W", "a", "n", "d", "e", "l">>
T_Hike == <<"H", "i", "k", "e">>
T_Hardloop == <<"H", "a", "r", "d", "l", "o", "o", "p">>
T_Virtuele_fietsrit == <<"V", "i", "r", "t", "u", "e", "l", "e", " ", "f", "i", "e", "t", "s", "r", "i", "t">>
T_Fietsrit == <<"F", "i", "e", "t", "s", "r", "i", "t">>
T_Hardloopsessie == <<"H", "a", "r", "d", "l", "o", "o", "p", "s", "e", "s", "s", "i", "e">>
T_Wandeling == <<"W", "a", "n", "d", "e", "l", "i", "n", "g">>
T_Padel == <<"P", "a", "d", "e", "l">>
T_Overig == <<"O", "v", "e", "r", "i", "g">>
T_training == <<"t", "r", "a", "i", "n", "i", "n", "g">>
T_Ride == <<"R", "i", "d", "e">>
T_VirtualRide == <<"V", "i", "r", "t", "u", "a", "l", "R", "i", "d", "e">>
T_Run == <<"R", "u", "n">>
T_Walk == <<"W", "a", "l", "k">>
T_WeightTraining == <<"W", "e", "i", "g", "h", "t", "T", "r", "a", "i", "n", "i", "n", "g">>
T_Workout == <<"W", "o", "r", "k", "o", "u", "t">>
T_Swim == <<"S", "w", "i", "m">>
T_GravelRide == <<"G", "r", "a", "v", "e", "l", "R", "i", "d", "e">>
T_TrailRun == <<"T", "r", "a", "i", "l", "R", "u", "n">>
T_Elliptical == <<"E", "l", "l", "i", "p", "t", "i", "c", "a", "l">>
T_Yoga == <<"Y", "o", "g", "a">>
T_Kayaking == <<"K", "a", "y", "a", "k", "i", "n", "g">>
T_Naamloos == <<"N", "a", "a", "m", "l", "o", "o", "s">>
T_Ochtendrit == <<"O", "c", "h", "t", "e", "n", "d", "r", "i", "t">>

----------------------------------------------------------------------------
(* update_activities.py: TYPE_MAPPING and the 'Activiteitstype' cell *)

TYPE_MAPPING ==
    { <<T_Ride, T_Fietsrit>>, <<T_VirtualRide, T_Virtuele_fietsrit>>,
      <<T_Run, T_Hardloopsessie>>, <<T_Walk, T_Wandeling>>, <<T_Hike, T_Hike>>,
      <<T_WeightTraining, T_Padel>>, <<T_Workout, T_Padel>>, <<T_Swim, T_Zwemmen>>,
      <<T_GravelRide, T_Fietsrit>>, <<T_TrailRun, T_Hardloopsessie>>,
      <<T_Elliptical, T_Training>>, <<T_Yoga, T_Training>> }

(* TYPE_MAPPING.get(act.get('type'), act.get('type', 'Overig')) *)
MapType(type) ==
    LET key == DictGet(type, None)
        default == DictGet(type, Text(T_Overig))
    IN  IF IsText(key) /\ \E p \in TYPE_MAPPING : p[1] = key.s
        THEN Text((CHOOSE p \in TYPE_MAPPING : p[1] = key.s)[2])
        ELSE default

(* DataFrame.to_csv followed by pandas.read_csv on one text cell: None and the
   empty text are written as an empty field, which is read back as NaN *)
CsvText(x) == IF x = None \/ x = Text(<<>>) THEN NaN ELSE x

----------------------------------------------------------------------------
(* maak_dashboard.py: get_activity_icon and the df_charts filter.
   The icons are named by the sport they draw: swimmer = "Swimming",
   mountain = "IndoorCycling", cyclist = "Cycling", tennis = "Strength"
   (the 'Training' rule), walker = "Walking", runner = "Running",
   sparkles = "Other". *)

get_activity_icon_FietsFirst(activity_type) ==
    LET s == Str(activity_type)
    IN  IF Contains(s, T_Zwemmen) THEN "Swimming"
        ELSE IF Contains(s, T_Fiets) THEN "Cycling"
        ELSE IF Contains(s, T_VirtueleFietsrit) THEN "IndoorCycling"
        ELSE IF Contains(s, T_Training) THEN "Strength"
        ELSE IF Contains(s, T_Wandel) \/ Contains(s, T_Hike) THEN "Walking"
        ELSE IF Contains(s, T_Hardloop) THEN "Running"
        ELSE "Other"

get_activity_icon_NoHike(activity_type) ==
    LET s == Str(activity_type)
    IN  IF Contains(s, T_Zwemmen) THEN "Swimming"
        ELSE IF Contains(s, T_VirtueleFietsrit) THEN "IndoorCycling"
        ELSE IF Contains(s, T_Fiets) THEN "Cycling"
        ELSE IF Contains(s, T_Training) THEN "Strength"
        ELSE IF Contains(s, T_Wandel) THEN "Walking"
        ELSE IF Contains(s, T_Hardloop) THEN "Running"
        ELSE "Other"

get_activity_icon(activity_type) ==
    LET s == Str(activity_type)
    IN  IF Contains(s, T_Zwemmen) THEN "Swimming"
        ELSE IF Contains(s, T_VirtueleFietsrit) THEN "IndoorCycling"
        ELSE IF Contains(s, T_Fiets) THEN "Cycling"
        ELSE IF Contains(s, T_Training) THEN "Strength"
        ELSE IF Contains(s, T_Wandel) \/ Contains(s, T_Hike) THEN "Walking"
        ELSE IF Contains(s, T_Hardloop) THEN "Running"
        ELSE "Other"

ACTIVITEITEN_KEUZE == {T_Fiets, T_Hardloop, T_Wandel, T_Hike}

(* df_clean['Activiteitstype'].str.contains(filter_patroon, case=False, na=False) *)
InCharts(activity_type) ==
    IF IsText(activity_type)
    THEN \E k \in ACTIVITEITEN_KEUZE : ContainsNoCase(activity_type.s, k)
    ELSE FALSE

----------------------------------------------------------------------------
(* Inputs of the categorisation *)

(* the 'type' field of an activity: the mapped Strava types, one unmapped
   type, a null type and an activity without the key *)
StravaTypes ==
    { Text(p[1]) : p \in TYPE_MAPPING } \cup { Text(T_Kayaking), None, Missing }

(* words of a label in an exported CSV *)
Words ==
    { T_Zwemmen, T_VirtueleFietsrit, T_Virtuele_fietsrit, T_Fietsrit,
      T_Training, T_training, T_Wandeling, T_Hike, T_Hardloopsessie, T_Padel }

RECURSIVE Phrases(_)
Phrases(n) ==
    IF n = 0 THEN { <<>> }
    ELSE LET shorter == Phrases(n - 1)
         IN  shorter \cup Words
             \cup { p \o <<" ">> \o w : p \in (shorter \ { <<>> }), w \in Words }

Labels == { CsvText(Text(p)) : p \in Phrases(MaxWords) }

----------------------------------------------------------------------------
(* Categorisation of one record *)

CatInit ==
    /\ act_type = Missing
    /\ Activiteitstype = NaN
    /\ icon = "none"
    /\ in_charts = FALSE
    /\ cat_pc = "start"

(* update_csv, line 138: the cell written for a fetched activity, as the
   dashboard reads it back from the file *)
FetchType ==
    /\ cat_pc = "start"
    /\ \E t \in StravaTypes :
          /\ act_type' = t
          /\ Activiteitstype' = CsvText(MapType(t))
    /\ cat_pc' = "label"
    /\ UNCHANGED <<icon, in_charts>>

(* a record of an exported CSV: any label *)
ReadLabel ==
    /\ cat_pc = "start"
    /\ \E l \in Labels : Activiteitstype' = l
    /\ cat_pc' = "label"
    /\ UNCHANGED <<act_type, icon, in_charts>>

(* genereer_summary_card_html, line 181, and the df_charts filter *)
Categorize ==
    /\ cat_pc = "label"
    /\ icon' = get_activity_icon(Activiteitstype)
    /\ in_charts' = InCharts(Activiteitstype)
    /\ cat_pc' = "done"
    /\ UNCHANGED <<act_type, Activiteitstype>>

PipeIdle ==
    /\ all_activities = <<>>
    /\ csv = <<>>
    /\ report = [status |-> "none"]
    /\ pc = "idle"

(* the analytics engine has not been called *)
EngineIdle ==
    /\ records = <<>>
    /\ unit = "day"
    /\ now = 0
    /\ streaks = [status |-> "none"]
    /\ current_year_records = <<>>
    /\ prior_year_records = <<>>
    /\ reference_day_of_year = 0
    /\ is_latest_year = FALSE
    /\ comparison = [status |-> "none"]
    /\ epc = "idle"

(* update_activities.py has not been started *)
Unset == [k |-> "unset"]

DateIdle == strava_date = Unset /\ date_text = Unset /\ date_parsed = Unset

PageIdle == dom = [k |-> "closed"]

AuthIdle ==
    /\ env = [client_id |-> None, client_secret |-> None, refresh_token |-> None]
    /\ token_response = [k |-> "none"]
    /\ calls = <<>>

SyncIdle ==
    /\ api = [gear |-> [k |-> "none"], pages |-> <<>>]
    /\ upc = "off"
    /\ gear_map = {}
    /\ old_gear_data = {}
    /\ page = 1
    /\ requested = <<>>
    /\ csv_before = <<>>
    /\ runs = 0

InitCat == CatInit /\ PipeIdle /\ SyncIdle /\ AuthIdle /\ DateIdle /\ PageIdle /\ EngineIdle

NextCat ==
    \/ FetchType /\ UNCHANGED <<pipeVars, syncVars, engineVars, authVars, dateVars, dom>>
    \/ ReadLabel /\ UNCHANGED <<pipeVars, syncVars, engineVars, authVars, dateVars, dom>>
    \/ Categorize /\ UNCHANGED <<pipeVars, syncVars, engineVars, authVars, dateVars, dom>>

SpecCat == InitCat /\ [][NextCat]_vars

----------------------------------------------------------------------------
(* Cells of activities.csv as pandas.read_csv returns them:
     Num(v)    a number written with a decimal point (or none)
     Comma(v)  a number written with a decimal comma, e.g. "18,0": a text
     Text(s)   any other text
     NaN       an empty field
   and dates:
     IsoZ(y, m, d)   "2024-01-05T10:00:00Z", the format of the Strava API
     Nl(d, mon, y)   "5 jan 2024, 10:00:00", day, Dutch month abbreviation, year *)

Comma(v) == [k |-> "comma", v |-> v]
IsoZAt(y, m, d, time) == [k |-> "iso", y |-> y, m |-> m, d |-> d, time |-> time]
NlAt(d, mon, y, clock) == [k |-> "nl", d |-> d, mon |-> mon, y |-> y, clock |-> clock]
DateAt(y, m, d, time) == [k |-> "date", y |-> y, m |-> m, d |-> d, time |-> time]

(* the same at ten o'clock: the time <<hour, minute, second>> and the clock
   text "10:00:00" *)
IsoZ(y, m, d) == IsoZAt(y, m, d, <<10, 0, 0>>)
Nl(d, mon, y) == NlAt(d, mon, y, <<"1","0",":","0","0",":","0","0">>)
Date(y, m, d) == DateAt(y, m, d, <<10, 0, 0>>)
NaT == [k |-> "nat"]
Junk == Text(<<"?">>)

(* a cell pandas holds as a Python str: it makes the column's dtype object *)
IsStr(x) == x.k \in {"text", "comma", "nl", "iso"}

(* DataFrame.to_csv then read_csv: None and '' become the empty field *)
CsvCell(x) == IF x = None \/ x = Text(<<>>) THEN NaN ELSE x

RECURSIVE SeqsUpTo(_, _)
SeqsUpTo(S, n) ==
    IF n = 0 THEN { <<>> }
    ELSE LET shorter == SeqsUpTo(S, n - 1)
         IN  shorter \cup { Append(q, x) : q \in shorter, x \in S }

----------------------------------------------------------------------------
(* update_activities.py *)

maanden ==
    << <<"j","a","n">>, <<"f","e","b">>, <<"m","r","t">>, <<"a","p","r">>,
       <<"m","e","i">>, <<"j","u","n">>, <<"j","u","l">>, <<"a","u","g">>,
       <<"s","e","p">>, <<"o","k","t">>, <<"n","o","v">>, <<"d","e","c">> >>

(* format_date: a Strava timestamp becomes "day month-abbreviation year, time";
   anything else makes strptime raise and is returned as it came *)
DigitChars == <<"0", "1", "2", "3", "4", "5", "6", "7", "8", "9">>

(* strftime's %H, %M and %S: two digits *)
TwoDigits(n) == <<DigitChars[(n \div 10) + 1], DigitChars[(n % 10) + 1]>>

(* dt.strftime('%H:%M:%S') *)
Clock(time) ==
    TwoDigits(time[1]) \o <<":">> \o TwoDigits(time[2]) \o <<":">> \o TwoDigits(time[3])

format_date(date_str) ==
    IF date_str.k = "iso"
    THEN NlAt(date_str.d, maanden[date_str.m], date_str.y, Clock(date_str.time))
    ELSE date_str

(* safe_float(value, multiplier): the multiplier is num/den *)
safe_float(value, num, den) ==
    IF value = None THEN Num(0)
    ELSE IF IsNum(value) THEN Num((value.v * num) \div den)
    ELSE Num(0)

(* f"{x:.1f}".replace('.', ',') and f"{x:.2f}".replace('.', ',') of a float *)
FormatComma(x) == Comma(x.v)

Skip == [k |-> "skip"]

(* the body of the loop over all_activities: the row of one activity, or
   Skip when act['id'] raises.
   Units: 'distance' in metres gives 'Afstand' in hundredths of a km,
   'average_speed' in m/s gives 'Gemiddelde snelheid' in tenths of a km/h.
   The activities here carry no max_heartrate, max_speed and kilojoules:
   act.get gives their defaults. *)
BuildRow(act) ==
    IF act.id = Missing THEN Skip
    ELSE LET avg_speed == safe_float(DictGet(act.average_speed, None), 36, 1)
             dist_km == safe_float(DictGet(act.distance, None), 1, 10)
         IN  [ Activiteits_ID |-> act.id,
               Datum_van_activiteit |->
                   CsvCell(format_date(DictGet(act.start_date_local, Text(<<>>)))),
               Naam_activiteit |-> CsvCell(DictGet(act.name, Text(T_Naamloos))),
               Activiteitstype |-> CsvCell(MapType(act.type)),
               Beweegtijd |-> CsvCell(DictGet(act.moving_time, Num(0))),
               Afstand |-> FormatComma(dist_km),
               Max_hartslag |-> CsvCell(Text(<<>>)),
               Gemiddelde_snelheid |-> FormatComma(avg_speed),
               Max_snelheid |-> FormatComma(safe_float(None, 36, 1)),
               Totale_stijging |-> CsvCell(DictGet(act.total_elevation_gain, Num(0))),
               Gemiddelde_hartslag |-> CsvCell(DictGet(act.average_heartrate, Text(<<>>))),
               Calorieen |-> CsvCell(Num(0)) ]

RECURSIVE BuildRows(_)
BuildRows(acts) ==
    IF acts = <<>> THEN <<>>
    ELSE LET row == BuildRow(Head(acts))
         IN  IF row = Skip THEN BuildRows(Tail(acts))
             ELSE <<row>> \o BuildRows(Tail(acts))

----------------------------------------------------------------------------
(* maak_dashboard.py: normalisation *)

dutch_month_mapping_NoMrt ==
    { << <<"j","a","n">>, <<"J","a","n">> >>, << <<"f","e","b">>, <<"F","e","b">> >>,
      << <<"a","p","r">>, <<"A","p","r">> >>,
      << <<"m","e","i">>, <<"M","a","y">> >>, << <<"j","u","n">>, <<"J","u","n">> >>,
      << <<"j","u","l">>, <<"J","u","l">> >>, << <<"a","u","g">>, <<"A","u","g">> >>,
      << <<"s","e","p">>, <<"S","e","p">> >>, << <<"o","k","t">>, <<"O","c","t">> >>,
      << <<"n","o","v">>, <<"N","o","v">> >>, << <<"d","e","c">>, <<"D","e","c">> >> }

dutch_month_mapping ==
    { << <<"j","a","n">>, <<"J","a","n">> >>, << <<"f","e","b">>, <<"F","e","b">> >>,
      << <<"m","r","t">>, <<"M","a","r">> >>, << <<"a","p","r">>, <<"A","p","r">> >>,
      << <<"m","e","i">>, <<"M","a","y">> >>, << <<"j","u","n">>, <<"J","u","n">> >>,
      << <<"j","u","l">>, <<"J","u","l">> >>, << <<"a","u","g">>, <<"A","u","g">> >>,
      << <<"s","e","p">>, <<"S","e","p">> >>, << <<"o","k","t">>, <<"O","c","t">> >>,
      << <<"n","o","v">>, <<"N","o","v">> >>, << <<"d","e","c">>, <<"D","e","c">> >> }

(* the month names strptime's %b accepts, in any letter case *)
EnglishMonths ==
    << <<"J","a","n">>, <<"F","e","b">>, <<"M","a","r">>, <<"A","p","r">>,
       <<"M","a","y">>, <<"J","u","n">>, <<"J","u","l">>, <<"A","u","g">>,
       <<"S","e","p">>, <<"O","c","t">>, <<"N","o","v">>, <<"D","e","c">> >>

(* the loop of str.replace over dutch_month_mapping, on a lowered month name *)
ReplaceMonth(mon) ==
    IF \E p \in dutch_month_mapping : p[1] = mon
    THEN (CHOOSE p \in dutch_month_mapping : p[1] = mon)[2]
    ELSE mon

(* the value of a digit character, and of a run of digits *)
DigitValue(c) == (CHOOSE n \in 1..10 : DigitChars[n] = c) - 1

IsDigit(c) == \E n \in 1..10 : DigitChars[n] = c

(* "%H:%M:%S": three fields of one or two digits between colons, within the
   range of an hour, a minute and a second *)
ClockFields(clock) ==
    LET colons == { i \in 1..Len(clock) : clock[i] = ":" }
        first == CHOOSE i \in colons : \A j \in colons : i <= j
        second == CHOOSE i \in colons : \A j \in colons : j <= i
    IN  << SubSeq(clock, 1, first - 1), SubSeq(clock, first + 1, second - 1),
           SubSeq(clock, second + 1, Len(clock)) >>

FieldValue(field) ==
    IF Len(field) = 1 THEN DigitValue(field[1])
    ELSE 10 * DigitValue(field[1]) + DigitValue(field[2])

ClockReads(clock) ==
    /\ Cardinality({ i \in 1..Len(clock) : clock[i] = ":" }) = 2
    /\ \A n \in 1..3 :
          /\ Len(ClockFields(clock)[n]) \in 1..2
          /\ \A i \in 1..Len(ClockFields(clock)[n]) : IsDigit(ClockFields(clock)[n][i])
    /\ FieldValue(ClockFields(clock)[1]) <= 23
    /\ FieldValue(ClockFields(clock)[2]) <= 59
    /\ FieldValue(ClockFields(clock)[3]) <= 61

ReadClock(clock) ==
    << FieldValue(ClockFields(clock)[1]), FieldValue(ClockFields(clock)[2]),
       FieldValue(ClockFields(clock)[3]) >>

(* robust_date_parser_final on one cell: "%d %b %Y, %H:%M:%S" after the month
   replacement; a text that neither it nor the fallback parser reads, and the
   empty field, give NaT *)
robust_date_parser_final(cell) ==
    CASE cell.k = "nl" ->
            LET eng == ReplaceMonth(Lower(cell.mon))
            IN  IF /\ \E m \in 1..12 : Lower(EnglishMonths[m]) = Lower(eng)
                   /\ ClockReads(cell.clock)
                THEN DateAt(cell.y,
                            CHOOSE m \in 1..12 : Lower(EnglishMonths[m]) = Lower(eng),
                            cell.d,
                            ReadClock(cell.clock))
                ELSE NaT
      [] cell.k \in {"text", "nan"} -> NaT

ColumnIsObject(rows, col) == \E i \in 1..Len(rows) : IsStr(rows[i][col])

(* str.replace(',', '.') and pd.to_numeric(errors='coerce') on one cell *)
to_numeric(cell) ==
    IF cell.k \in {"num", "comma"} THEN Num(cell.v) ELSE NaN

(* FIX 2 on one column: only a column of dtype object is converted *)
CommaToPoint(rows, col, cell) ==
    IF ColumnIsObject(rows, col) THEN to_numeric(cell) ELSE cell

(* FIX 1 on one cell: df['Gemiddelde snelheid'] * 3.6, in tenths *)
TimesThreePointSix(cell) ==
    IF IsNum(cell) THEN Num((cell.v * 36) \div 10) ELSE cell

fillna(cell, value) == IF IsNaN(cell) THEN Num(value) ELSE cell

Jaar(datum) == IF datum = NaT THEN NaN ELSE Num(datum.y)
Maand(datum) == IF datum = NaT THEN NaN ELSE Num(datum.m)

(* lines 284-342 on one row of the file: the row of df_clean before the
   filter on Activiteitstype *)
CleanRow(rows, i) ==
    LET r == rows[i]
        datum == robust_date_parser_final(r.Datum_van_activiteit)
    IN  [ Datum |-> datum,
          Jaar |-> Jaar(datum),
          Maand |-> Maand(datum),
          Activiteitstype |-> r.Activiteitstype,
          Afstand_km |-> CommaToPoint(rows, "Afstand", r.Afstand),
          Beweegtijd_sec |-> r.Beweegtijd,
          Totale_Stijging_m |->
              fillna(CommaToPoint(rows, "Totale_stijging", r.Totale_stijging), 0),
          Gemiddelde_Snelheid_km_u |-> TimesThreePointSix(r.Gemiddelde_snelheid),
          Gemiddelde_Hartslag |->
              CommaToPoint(rows, "Gemiddelde_hartslag", r.Gemiddelde_hartslag) ]

RECURSIVE CleanRows(_, _)
CleanRows(rows, i) ==
    IF i > Len(rows) THEN <<>>
    ELSE IF IsNaN(rows[i].Activiteitstype) THEN CleanRows(rows, i + 1)
    ELSE <<CleanRow(rows, i)>> \o CleanRows(rows, i + 1)

----------------------------------------------------------------------------
(* maak_dashboard.py: aggregation.  pandas' sum, mean and max skip NaN. *)

RECURSIVE SumCol_SkipsFirst(_, _)
SumCol_SkipsFirst(rows, col) ==
    IF Len(rows) <= 1 THEN 0
    ELSE (IF IsNum(rows[Len(rows)][col]) THEN rows[Len(rows)][col].v ELSE 0)
         + SumCol_SkipsFirst(SubSeq(rows, 1, Len(rows) - 1), col)

(* Series.sum() *)
RECURSIVE SumCol(_, _)
SumCol(rows, col) ==
    IF rows = <<>> THEN 0
    ELSE (IF IsNum(Head(rows)[col]) THEN Head(rows)[col].v ELSE 0)
         + SumCol(Tail(rows), col)

(* Series.count(): the cells that are not NaN *)
RECURSIVE CountCol(_, _)
CountCol(rows, col) ==
    IF rows = <<>> THEN 0
    ELSE (IF IsNum(Head(rows)[col]) THEN 1 ELSE 0) + CountCol(Tail(rows), col)

(* Series.mean(): NaN for a column without values, else sum over count *)
Mean(rows, col) ==
    IF CountCol(rows, col) = 0 THEN NaN
    ELSE [k |-> "mean", sum |-> SumCol(rows, col), n |-> CountCol(rows, col)]

MaxCol_Plausible(rows, col) ==
    LET vals == { rows[i][col].v :
                    i \in { j \in 1..Len(rows) :
                              IsNum(rows[j][col]) /\ rows[j][col].v < 1000 } }
    IN  IF vals = {} THEN NaN
        ELSE Num(CHOOSE v \in vals : \A w \in vals : w <= v)

(* Series.max(): NaN for a column without values *)
MaxCol(rows, col) ==
    LET vals == { rows[i][col].v : i \in { j \in 1..Len(rows) : IsNum(rows[j][col]) } }
    IN  IF vals = {} THEN NaN
        ELSE Num(CHOOSE v \in vals : \A w \in vals : w <= v)

HasDistance(row) == IsNum(row.Afstand_km) /\ row.Afstand_km.v > 0

(* the named aggregations of agg_jaar / agg_totaal, merged with max_stats /
   max_stats_totaal, over the rows of one group *)
Summary(group) ==
    [ Totaal_Afstand_km |-> SumCol(group, "Afstand_km"),
      Totaal_Tijd_sec |-> SumCol(group, "Beweegtijd_sec"),
      Totaal_Stijging_m |-> SumCol(group, "Totale_Stijging_m"),
      Aantal_Activiteiten |-> Len(group),
      Gemiddelde_Snelheid_km_u |->
          Mean(SelectSeq(group, HasDistance), "Gemiddelde_Snelheid_km_u"),
      Gemiddelde_Hartslag |-> Mean(group, "Gemiddelde_Hartslag"),
      Max_Afstand_km |-> MaxCol(group, "Afstand_km"),
      Max_Gemiddelde_Snelheid_km_u |-> MaxCol(group, "Gemiddelde_Snelheid_km_u") ]

(* the aggregations of agg_jaar_totaal and agg_alle_jaren *)
Totaal(group) ==
    [ Totaal_Afstand_km |-> SumCol(group, "Afstand_km"),
      Totaal_Tijd_sec |-> SumCol(group, "Beweegtijd_sec"),
      Totaal_Stijging_m |-> SumCol(group, "Totale_Stijging_m"),
      Aantal_Activiteiten |-> Len(group),
      Gemiddelde_Hartslag |-> Mean(group, "Gemiddelde_Hartslag") ]

(* groupby drops the rows whose key is NaN *)
JaarKeys(df) == { df[i].Jaar.v : i \in { j \in 1..Len(df) : IsNum(df[j].Jaar) } }
TypeKeys(df) == { df[i].Activiteitstype : i \in 1..Len(df) }

GroupJaarType(df, jaar, type) ==
    LET InGroup(row) == row.Jaar = Num(jaar) /\ row.Activiteitstype = type
    IN  SelectSeq(df, InGroup)

GroupJaar(df, jaar) ==
    LET InGroup(row) == row.Jaar = Num(jaar)
    IN  SelectSeq(df, InGroup)

GroupType(df, type) ==
    LET InGroup(row) == row.Activiteitstype = type
    IN  SelectSeq(df, InGroup)

agg_jaar(df) ==
    [ key \in { <<j, t>> \in JaarKeys(df) \X TypeKeys(df) : GroupJaarType(df, j, t) # <<>> }
        |-> Summary(GroupJaarType(df, key[1], key[2])) ]

agg_jaar_totaal(df) == [ j \in JaarKeys(df) |-> Totaal(GroupJaar(df, j)) ]

agg_totaal(df) == [ t \in TypeKeys(df) |-> Summary(GroupType(df, t)) ]

agg_alle_jaren(df) == Totaal(df)

(* dt.to_period('M') of a date, as the number of its month since year 0 *)
to_period(datum) == datum.y * 12 + (datum.m - 1)

(* the rows of one month and type: groupby drops the rows whose date is NaT *)
GroupMaandType(df, period, type) ==
    LET InGroup(row) ==
            /\ row.Datum # NaT
            /\ to_period(row.Datum) = period
            /\ row.Activiteitstype = type
    IN  SelectSeq(df, InGroup)

(* lines 363-369: every month from the first to the last dated row, with
   every type of df_clean *)
full_index_sports_NoFill(df) ==
    { <<to_period(df[i].Datum), df[i].Activiteitstype>> :
        i \in { j \in 1..Len(df) : df[j].Datum # NaT } }

full_index_sports(df) ==
    LET periods == { to_period(df[i].Datum) : i \in { j \in 1..Len(df) : df[j].Datum # NaT } }
        min_date == CHOOSE p \in periods : \A q \in periods : p <= q
        max_date == CHOOSE p \in periods : \A q \in periods : q <= p
    IN  (min_date..max_date) \X TypeKeys(df)

(* lines 373-374 and 380-381: the monthly counts and distances, reindexed on
   the full index with fill_value=0 *)
agg_sessies_maand(df) ==
    [ key \in full_index_sports(df) |-> Len(GroupMaandType(df, key[1], key[2])) ]

agg_maand_base(df) ==
    [ key \in full_index_sports(df) |->
        SumCol(GroupMaandType(df, key[1], key[2]), "Afstand_km") ]

(* sort_values(by='Datum', ascending=True): NaT last, equal dates in file order *)
DateBefore(a, b) ==
    /\ a # NaT
    /\ \/ b = NaT
       \/ a.y < b.y
       \/ a.y = b.y /\ a.m < b.m
       \/ a.y = b.y /\ a.m = b.m /\ a.d < b.d

RECURSIVE InsertByDatum(_, _)
InsertByDatum(sorted, row) ==
    IF sorted = <<>> THEN <<row>>
    ELSE IF DateBefore(row.Datum, Head(sorted).Datum)
         THEN <<row>> \o sorted
         ELSE <<Head(sorted)>> \o InsertByDatum(Tail(sorted), row)

RECURSIVE SortByDatum(_)
SortByDatum(rows) ==
    IF rows = <<>> THEN <<>>
    ELSE InsertByDatum(SortByDatum(SubSeq(rows, 1, Len(rows) - 1)), rows[Len(rows)])

(* genereer_detail_tabel_html: the rows of the detail table *)
genereer_detail_tabel(df_data) == SortByDatum(df_data)

(* genereer_detail_tabel_html, line 102: row['Naam_Activiteit'].strip() on a
   name that is there and is no str; pandas reads the names as numbers only
   when no name of the column is a text *)
NameRaises(rows) ==
    /\ ~ColumnIsObject(rows, "Naam_activiteit")
    /\ \E i \in 1..Len(rows) :
          IsNum(rows[i].Naam_activiteit) /\ ~IsNaN(rows[i].Activiteitstype)

(* df.rename(columns=...), lines 292-309, on one column of the file *)
RenameColumn(col) ==
    CASE col = "Datum_van_activiteit" -> "Datum"
      [] col = "Naam_activiteit" -> "Naam_Activiteit"
      [] col = "Verstreken_tijd" -> "Verstreken_Tijd_sec"
      [] col = "Beweegtijd" -> "Beweegtijd_sec"
      [] col = "Afstand" -> "Afstand_km"
      [] col = "Max_snelheid" -> "Max_Snelheid_km_u"
      [] col = "Gemiddelde_snelheid" -> "Gemiddelde_Snelheid_km_u"
      [] col = "Totale_stijging" -> "Totale_Stijging_m"
      [] col = "Max_hartslag" -> "Max_Hartslag"
      [] col = "Gemiddelde_hartslag" -> "Gemiddelde_Hartslag"
      [] col = "Max_cadans" -> "Max_Cadans"
      [] col = "Gemiddelde_cadans" -> "Gemiddelde_Cadans"
      [] col = "Gemiddeld_wattage" -> "Gemiddeld_Wattage"
      [] col = "Totaal_geheven_gewicht" -> "Totaal_Geheven_Gewicht_kg"
      [] OTHER -> col

(* the columns of df at line 335: the renamed columns of the file and the
   three columns derived from 'Datum' *)
DfColumns(rows) ==
    { RenameColumn(col) : col \in DOMAIN rows[1] } \cup { "Jaar", "Maand", "Week" }

relevante_kolommen ==
    { "Datum", "Naam_Activiteit", "Jaar", "Maand", "Week", "Activiteitstype",
      "Afstand_km", "Verstreken_Tijd_sec", "Beweegtijd_sec", "Totale_Stijging_m",
      "Gemiddelde_Snelheid_km_u", "Max_Snelheid_km_u", "Gemiddelde_Hartslag",
      "Calorieen", "Gemiddeld_Wattage", "Totaal_Geheven_Gewicht_kg" }

(* genereer_html_dashboard on the rows of the file: what it aggregates and
   renders, or where it raises *)
genereer_html_dashboard(rows) ==
    IF ColumnIsObject(rows, "Gemiddelde_snelheid") \/ ColumnIsObject(rows, "Max_snelheid")
    THEN [status |-> "raised", where |-> "speed conversion"]
    ELSE IF ~(relevante_kolommen \subseteq DfColumns(rows))
    THEN [status |-> "raised", where |-> "column selection"]
    ELSE LET df_clean == CleanRows(rows, 1)
         IN  IF JaarKeys(df_clean) = {}
             THEN [status |-> "raised", where |-> "period range"]
             ELSE IF \E i \in 1..Len(df_clean) : IsStr(df_clean[i].Beweegtijd_sec)
             THEN [status |-> "raised", where |-> "aggregation"]
             ELSE IF NameRaises(rows)
             THEN [status |-> "raised", where |-> "detail table"]
             ELSE [ status |-> "ok",
                    df_clean |-> df_clean,
                    agg_jaar |-> agg_jaar(df_clean),
                    agg_jaar_totaal |-> agg_jaar_totaal(df_clean),
                    agg_totaal |-> agg_totaal(df_clean),
                    agg_alle_jaren |-> agg_alle_jaren(df_clean),
                    agg_sessies_maand |-> agg_sessies_maand(df_clean),
                    agg_maand_base |-> agg_maand_base(df_clean),
                    detail_Globaal |-> genereer_detail_tabel(df_clean),
                    detail_jaar |->
                        [ j \in JaarKeys(df_clean) |->
                            genereer_detail_tabel(GroupJaar(df_clean, j)) ] ]

----------------------------------------------------------------------------
(* A date on its way from the API to the dashboard: format_date writes it,
   the file carries it, robust_date_parser_final reads it *)

(* valid timestamps of the API: every month, its first and its 28th day, and
   three times of the day *)
StravaDates ==
    { IsoZAt(2024, m, d, time) :
        m \in 1..12, d \in {1, 28}, time \in { <<0, 0, 0>>, <<9, 5, 7>>, <<23, 59, 59>> } }

(* what else 'start_date_local' can hold: nothing, an empty text, a text
   that is no date, and a date that is already formatted *)
OtherDates == { None, Text(<<>>), Junk, Nl(5, <<"j","a","n">>, 2024) }

FormatDate ==
    /\ date_text = Unset
    /\ date_text' = format_date(strava_date)
    /\ UNCHANGED <<strava_date, date_parsed>>

ParseDate ==
    /\ date_text # Unset
    /\ date_parsed = Unset
    /\ date_parsed' = robust_date_parser_final(CsvCell(date_text))
    /\ UNCHANGED <<strava_date, date_text>>

InitDate ==
    /\ CatInit /\ PipeIdle /\ SyncIdle /\ AuthIdle /\ PageIdle /\ EngineIdle
    /\ strava_date \in StravaDates \cup OtherDates
    /\ date_text = Unset
    /\ date_parsed = Unset

NextDate ==
    \/ FormatDate /\ UNCHANGED <<catVars, pipeVars, syncVars, engineVars, authVars, dom>>
    \/ ParseDate /\ UNCHANGED <<catVars, pipeVars, syncVars, engineVars, authVars, dom>>

SpecDate == InitDate /\ [][NextDate]_vars

----------------------------------------------------------------------------
(* The two scripts as a pipeline over activities.csv *)

(* the activities of an API response, without their ids *)
ActivityBodies ==
    [ start_date_local : { IsoZ(2024, 1, 5) },
      name : { Text(T_Ochtendrit) },
      type : { Text(T_Ride) },
      moving_time : { Num(3600), Junk },
      distance : { Num(10000), Junk },
      average_speed : { Num(5), Missing, Junk },
      total_elevation_gain : { Num(100) },
      average_heartrate : { Num(140), Missing } ]

(* the i-th activity of a response has id i *)
WithIds(bodies) ==
    [ i \in 1..Len(bodies) |->
        [ id |-> Num(i),
          start_date_local |-> bodies[i].start_date_local,
          name |-> bodies[i].name,
          type |-> bodies[i].type,
          moving_time |-> bodies[i].moving_time,
          distance |-> bodies[i].distance,
          average_speed |-> bodies[i].average_speed,
          total_elevation_gain |-> bodies[i].total_elevation_gain,
          average_heartrate |-> bodies[i].average_heartrate ] ]

(* update_csv: the rows built from the fetched activities replace the file
   when there is at least one *)
RunUpdate ==
    /\ pc = "idle"
    /\ \E bodies \in SeqsUpTo(ActivityBodies, MaxActs) :
          LET acts == WithIds(bodies)
              new_rows == BuildRows(acts)
          IN  /\ all_activities' = acts
              /\ csv' = IF new_rows # <<>> THEN new_rows ELSE csv
    /\ pc' = "updated"
    /\ UNCHANGED report

(* genereer_html_dashboard: an empty csv stands for a missing file *)
RunDashboard ==
    /\ pc \in {"idle", "updated"}
    /\ report' = IF csv = <<>> THEN [status |-> "no file"]
                 ELSE genereer_html_dashboard(csv)
    /\ pc' = "generated"
    /\ UNCHANGED <<all_activities, csv>>

InitFetch == CatInit /\ PipeIdle /\ SyncIdle /\ AuthIdle /\ DateIdle /\ PageIdle /\ EngineIdle

NextFetch ==
    \/ RunUpdate /\ UNCHANGED <<catVars, syncVars, engineVars, authVars, dateVars, dom>>
    \/ RunDashboard /\ UNCHANGED <<catVars, syncVars, engineVars, authVars, dateVars, dom>>

SpecFetch == InitFetch /\ [][NextFetch]_vars

(* Rows of an exported CSV.  'Afstand' is in hundredths of a km and
   'Gemiddelde snelheid' in tenths of a m/s. *)
Jan2024 == Nl(5, <<"j","a","n">>, 2024)
Mrt2025 == Nl(7, <<"m","r","t">>, 2025)

ExportRow(datum, type, afstand, tijd, stijging, snelheid, hartslag) ==
    [ Activiteits_ID |-> NaN,
      Datum_van_activiteit |-> datum,
      Naam_activiteit |-> Text(T_Ochtendrit),
      Activiteitstype |-> type,
      Verstreken_tijd |-> tijd,
      Beweegtijd |-> tijd,
      Afstand |-> afstand,
      Max_hartslag |-> hartslag,
      Gemiddelde_snelheid |-> snelheid,
      Max_snelheid |-> snelheid,
      Totale_stijging |-> stijging,
      Gemiddelde_hartslag |-> hartslag,
      Calorieen |-> NaN,
      Gemiddeld_wattage |-> NaN,
      Totaal_geheven_gewicht |-> NaN ]

(* rows for the totals: two years and an unreadable date, two sports and a
   row without a type, a complete record and one with a decimal comma and
   missing elevation, speed and heart rate *)
TotalsRows ==
    { ExportRow(d, Text(t), Num(1000), Num(3600), Num(100), Num(50), Num(140)) :
        d \in {Jan2024, Mrt2025}, t \in {T_Fietsrit, T_Hardloopsessie} }
    \cup
    { ExportRow(d, Text(t), Comma(2550), Num(1800), NaN, NaN, NaN) :
        d \in {Jan2024, Mrt2025}, t \in {T_Fietsrit, T_Hardloopsessie} }
    \cup
    { ExportRow(Junk, Text(T_Fietsrit), Num(1000), Num(3600), Num(100), Num(50), Num(140)),
      ExportRow(Junk, Text(T_Hardloopsessie), Comma(2550), Num(1800), NaN, NaN, NaN),
      ExportRow(Jan2024, NaN, Num(1000), Num(3600), Num(100), Num(50), Num(140)) }

(* rows for the records: plausible speeds (18.0 and 25.2 km/h), a GPS glitch
   (399.6 km/h) and a session without distance and speed *)
BoardRows ==
    { ExportRow(Jan2024, Text(t), m[1], Num(3600), Num(0), m[2], NaN) :
        t \in {T_Fietsrit, T_Hardloopsessie},
        m \in { <<Num(1000), Num(50)>>, <<Num(2500), Num(70)>>,
                <<Num(300), Num(1110)>>, <<NaN, NaN>> } }
    \cup
    { ExportRow(Mrt2025, Text(T_Fietsrit), Num(2500), Num(3600), Num(0), Num(70), NaN) }

DashIdle ==
    /\ all_activities = <<>>
    /\ report = [status |-> "none"]
    /\ pc = "idle"

InitDash == CatInit /\ DashIdle /\ SyncIdle /\ AuthIdle /\ DateIdle /\ PageIdle /\ EngineIdle /\ csv \in SeqsUpTo(TotalsRows, MaxRows)

InitBoard == CatInit /\ DashIdle /\ SyncIdle /\ AuthIdle /\ DateIdle /\ PageIdle /\ EngineIdle /\ csv \in SeqsUpTo(BoardRows, MaxRows)

NextDash == RunDashboard /\ UNCHANGED <<catVars, syncVars, engineVars, authVars, dateVars, dom>>

SpecDash == InitDash /\ [][NextDash]_vars

SpecBoard == InitBoard /\ [][NextDash]_vars

(* rows for the tolerance of single bad records: two complete records, and
   the first of them with one cell that is missing or unreadable *)
GoodRows ==
    { ExportRow(Jan2024, Text(T_Fietsrit), Num(1000), Num(3600), Num(100), Num(50), Num(140)),
      ExportRow(Mrt2025, Text(T_Hardloopsessie), Num(500), Num(1800), Num(20), Num(30), Num(150)) }

BadRows ==
    LET good == ExportRow(Jan2024, Text(T_Fietsrit), Num(1000), Num(3600), Num(100),
                          Num(50), Num(140))
    IN  { [good EXCEPT !.Datum_van_activiteit = Junk],
          [good EXCEPT !.Naam_activiteit = NaN],
          [good EXCEPT !.Naam_activiteit = Num(2024)],
          [good EXCEPT !.Afstand = Junk],
          [good EXCEPT !.Beweegtijd = Junk],
          [good EXCEPT !.Totale_stijging = Junk],
          [good EXCEPT !.Gemiddelde_snelheid = Junk],
          [good EXCEPT !.Gemiddelde_hartslag = Junk] }

InitMalformed ==
    CatInit /\ DashIdle /\ SyncIdle /\ AuthIdle /\ DateIdle /\ PageIdle /\ EngineIdle /\ csv \in SeqsUpTo(GoodRows \cup BadRows, MaxRows)

SpecMalformed == InitMalformed /\ [][NextDash]_vars

----------------------------------------------------------------------------
(* update_activities.py, step by step: get_gear_map, the backup of the gear
   column of the old file, the page loop, and the write of the new file *)

Fail == [k |-> "fail"]

T_BikeA == <<"B", "i", "k", "e", " ", "A">>
T_BikeB == <<"B", "i", "k", "e", " ", "B">>
T_BikeB_Padded == <<" ", "B", "i", "k", "e", " ", "B", " ">>
T_b1 == <<"b", "1">>
T_nan == <<"n", "a", "n">>
T_Nan == <<"N", "a", "n">>

(* str.strip() *)
RECURSIVE Strip(_)
Strip(s) ==
    IF s = <<>> THEN s
    ELSE IF Head(s) = " " THEN Strip(Tail(s))
    ELSE IF s[Len(s)] = " " THEN Strip(SubSeq(s, 1, Len(s) - 1))
    ELSE s

Digits == <<"0", "1", "2", "3", "4", "5", "6", "7", "8", "9">>

(* str(act['id']) and Series.astype(str) on the id column: the decimal text of
   an integer below 10, 'nan' for an empty field *)
IdStr(id) == IF IsNum(id) THEN <<Digits[id.v + 1]>> ELSE Str(id)

(* dict.get(key, default) and dict[key] = value on a dict kept as a set of
   <<key, value>> pairs *)
Get(dict, key, default) ==
    IF \E p \in dict : p[1] = key
    THEN (CHOOSE p \in dict : p[1] = key)[2]
    ELSE default

Put(dict, key, value) == { p \in dict : p[1] # key } \cup { <<key, value>> }

(* Python's truth value of a gear name: None and '' are false *)
Truthy(x) == x # None /\ x # Text(<<>>)

(* lines 88-91 over the rows of the old file, first to last *)
RECURSIVE OldGearData(_)
OldGearData(rows) ==
    IF rows = <<>> THEN {}
    ELSE LET row == rows[Len(rows)]
             earlier == OldGearData(SubSeq(rows, 1, Len(rows) - 1))
             cell == row.Uitrusting_voor_activiteit
             gear_val == IF IsNaN(cell) THEN <<>> ELSE Strip(cell.s)
         IN  IF gear_val # <<>> /\ Lower(gear_val) # T_nan
             THEN Put(earlier, IdStr(row.Activiteits_ID), Text(gear_val))
             ELSE earlier

(* lines 123-128: the gear written for one activity *)
GearName_NoBackup(act, gears, old) ==
    Get(gears, DictGet(act.gear_id, None), Text(<<>>))

GearName_BackupFirst(act, gears, old) ==
    LET act_id == IdStr(act.id)
        gear_name == Get(gears, DictGet(act.gear_id, None), Text(<<>>))
    IN  IF \E p \in old : p[1] = act_id
        THEN Get(old, act_id, None)
        ELSE gear_name

GearName(act, gears, old) ==
    LET act_id == IdStr(act.id)
        gear_name == Get(gears, DictGet(act.gear_id, None), Text(<<>>))
    IN  IF ~Truthy(gear_name) /\ \E p \in old : p[1] = act_id
        THEN Get(old, act_id, None)
        ELSE gear_name

(* the row of one activity with its gear column *)
GearRow(act, gears, old) ==
    IF BuildRow(act) = Skip THEN Skip
    ELSE BuildRow(act)
         @@ [ Uitrusting_voor_activiteit |-> CsvCell(GearName(act, gears, old)) ]

RECURSIVE GearRows(_, _, _)
GearRows(acts, gears, old) ==
    IF acts = <<>> THEN <<>>
    ELSE LET row == GearRow(Head(acts), gears, old)
         IN  IF row = Skip THEN GearRows(Tail(acts), gears, old)
             ELSE <<row>> \o GearRows(Tail(acts), gears, old)

(* an activity of the API with or without a gear, and one without an id *)
SyncAct(id, gear_id) ==
    [ id |-> id,
      start_date_local |-> IsoZ(2024, 1, 5),
      name |-> Text(T_Ochtendrit),
      type |-> Text(T_Ride),
      moving_time |-> Num(3600),
      distance |-> Num(10000),
      average_speed |-> Num(5),
      total_elevation_gain |-> Num(100),
      average_heartrate |-> Num(140),
      gear_id |-> gear_id ]

SyncActs ==
    { SyncAct(Num(i), g) : i \in 1..2, g \in { Text(T_b1), None } }
    \cup { SyncAct(Missing, None) }

(* the answer to one page request: a list of activities (possibly empty) or a
   failure (raise_for_status or a connection error) *)
Data(acts) == [k |-> "data", acts |-> acts]
PageAnswers == { Data(<<a>>) : a \in SyncActs } \cup { Data(<<>>), Fail }

(* the answer of /athlete: bikes and shoes, or a failure *)
Gear(names) == [k |-> "gear", names |-> names]
GearAnswers ==
    { Fail,
      Gear({ <<Text(T_b1), Text(T_BikeA)>> }),
      Gear({ <<Text(T_b1), Text(<<>>)>> }) }

(* a row of a file that is already there: an export with its gear column *)
OldRow(id, gear) ==
    [ ExportRow(Jan2024, Text(T_Fietsrit), Num(1000), Num(3600), Num(100), Num(50), Num(140))
        EXCEPT !.Activiteits_ID = Num(id) ]
    @@ [ Uitrusting_voor_activiteit |-> gear ]

OldGears == { NaN, Text(T_BikeB), Text(T_BikeB_Padded), Text(T_Nan) }

OldFiles ==
    { <<>> } \cup { <<OldRow(1, g)>> : g \in OldGears }
    \cup { <<OldRow(1, g), OldRow(2, h)>> : g \in OldGears, h \in { NaN, Text(T_BikeB) } }

(* the pages the API can answer: an activity listed twice (the list shifted
   between two requests) is the same activity both times *)
ActsOn(pages) ==
    UNION { { p.acts[i] : i \in 1..Len(p.acts) } :
              p \in { pages[n] : n \in { m \in 1..Len(pages) : pages[m] # Fail } } }

PageLists ==
    { pages \in SeqsUpTo(PageAnswers, MaxPages) :
        \A a, b \in ActsOn(pages) : (a.id = b.id) => (a = b) }

(* the answer of the API to the request for page n: past the last page with
   activities every page is empty *)
PageAnswer(n) == IF n <= Len(api.pages) THEN api.pages[n] ELSE Data(<<>>)

(* get_access_token, lines 24-26: 'not X' holds of an unset value and of '' *)
SecretsPresent_IdOnly(e) == Truthy(e.client_id)

SecretsPresent(e) ==
    Truthy(e.client_id) /\ Truthy(e.client_secret) /\ Truthy(e.refresh_token)

(* the answers to the token request: a body with an access_token, a body
   without one (r.json()['access_token'] raises KeyError), or a failure *)
T_secret == <<"s", "3">>
TokenOk == [k |-> "token", access_token |-> Text(T_secret)]
TokenMissing == [k |-> "json"]
TokenResponses == { TokenOk, TokenMissing, Fail }

EnvValues == { None, Text(<<>>), Text(T_secret) }

POST_token == "POST /oauth/token"
GET_athlete == "GET /api/v3/athlete"

(* get_access_token returns a token *)
Authorised == SecretsPresent(env) /\ token_response = TokenOk

(* get_access_token, lines 23-41, when it ends in sys.exit(1): without the
   secrets no request is sent *)
TokenExit ==
    /\ upc \in {"off", "done", "exit 1"}
    /\ runs < 2
    /\ ~Authorised
    /\ runs' = runs + 1
    /\ csv_before' = csv
    /\ calls' = IF SecretsPresent(env) THEN <<POST_token>> ELSE <<>>
    /\ requested' = <<>>
    /\ upc' = "exit 1"
    /\ UNCHANGED <<api, gear_map, old_gear_data, all_activities, page, csv, report, pc,
                   env, token_response>>

(* python update_activities.py: lines 73-75, get_access_token and get_gear_map *)
StartUpdate ==
    /\ upc \in {"off", "done", "exit 1"}
    /\ runs < 2
    /\ Authorised
    /\ calls' = <<POST_token, GET_athlete>>
    /\ UNCHANGED <<env, token_response>>
    /\ runs' = runs + 1
    /\ csv_before' = csv
    /\ gear_map' = IF api.gear = Fail THEN {} ELSE api.gear.names
    /\ old_gear_data' = {}
    /\ all_activities' = <<>>
    /\ page' = 1
    /\ requested' = <<>>
    /\ upc' = "backup"
    /\ UNCHANGED <<api, csv, report, pc>>

(* lines 77-94: the gear of the old file, when there is a file *)
ReadOldCsv ==
    /\ upc = "backup"
    /\ old_gear_data' = OldGearData(csv)
    /\ upc' = "fetch"
    /\ UNCHANGED <<api, gear_map, all_activities, page, requested, csv_before,
                   runs, csv, report, pc>>

(* one turn of a page loop that goes on after a failed request *)
FetchPage_PastFailure ==
    /\ upc = "fetch"
    /\ requested' = Append(requested, page)
    /\ LET data == PageAnswer(page)
       IN  IF data = Fail
           THEN /\ page' = page + 1
                /\ upc' = IF page < MaxPages THEN "fetch" ELSE "merge"
                /\ UNCHANGED all_activities
           ELSE IF data.acts = <<>>
           THEN /\ upc' = "merge"
                /\ UNCHANGED <<all_activities, page>>
           ELSE /\ all_activities' = all_activities \o data.acts
                /\ page' = page + 1
                /\ upc' = "fetch"
    /\ UNCHANGED <<api, gear_map, old_gear_data, csv_before, runs, csv, report, pc>>

(* lines 101-113: one turn of the page loop *)
FetchPage ==
    /\ upc = "fetch"
    /\ requested' = Append(requested, page)
    /\ LET data == PageAnswer(page)
       IN  IF data = Fail \/ data.acts = <<>>
           THEN /\ upc' = "merge"
                /\ UNCHANGED <<all_activities, page>>
           ELSE /\ all_activities' = all_activities \o data.acts
                /\ page' = page + 1
                /\ upc' = "fetch"
    /\ UNCHANGED <<api, gear_map, old_gear_data, csv_before, runs, csv, report, pc>>

(* lines 152-157: to_csv overwrites the file, when there are new rows *)
ToCsv_Append(file, new_rows) == file \o new_rows

ToCsv_Always(file, new_rows) == new_rows

ToCsv(file, new_rows) == IF new_rows # <<>> THEN new_rows ELSE file

(* lines 116-157: the rows of the fetched activities replace the file when
   there is at least one *)
WriteCsv ==
    /\ upc = "merge"
    /\ csv' = ToCsv(csv, GearRows(all_activities, gear_map, old_gear_data))
    /\ upc' = "done"
    /\ UNCHANGED <<api, gear_map, old_gear_data, all_activities, page, requested,
                   csv_before, runs, report, pc>>

(* python maak_dashboard.py between two runs of the update *)
SyncDashboard ==
    /\ upc \in {"off", "done"}
    /\ csv # <<>>
    /\ report' = genereer_html_dashboard(csv)
    /\ pc' = "generated"
    /\ UNCHANGED <<all_activities, csv>>
    /\ UNCHANGED syncVars

InitSync ==
    /\ CatInit
    /\ EngineIdle
    /\ all_activities = <<>>
    /\ report = [status |-> "none"]
    /\ pc = "idle"
    /\ csv \in OldFiles
    /\ api \in [ gear : GearAnswers, pages : PageLists ]
    /\ upc = "off"
    /\ gear_map = {}
    /\ old_gear_data = {}
    /\ page = 1
    /\ requested = <<>>
    /\ csv_before = <<>>
    /\ runs = 0
    /\ env = [client_id |-> Text(T_secret), client_secret |-> Text(T_secret),
              refresh_token |-> Text(T_secret)]
    /\ token_response = TokenOk
    /\ calls = <<>>
    /\ DateIdle /\ PageIdle

NextSync ==
    \/ StartUpdate /\ UNCHANGED <<catVars, engineVars, dateVars, dom>>
    \/ ReadOldCsv /\ UNCHANGED <<catVars, engineVars, authVars, dateVars, dom>>
    \/ FetchPage /\ UNCHANGED <<catVars, engineVars, authVars, dateVars, dom>>
    \/ WriteCsv /\ UNCHANGED <<catVars, engineVars, authVars, dateVars, dom>>
    \/ SyncDashboard /\ UNCHANGED <<catVars, engineVars, authVars, dateVars, dom>>

SpecSync == InitSync /\ [][NextSync]_vars

(* runs of update_activities.py with and without its secrets and its token,
   against a short activity list *)
AuthPages == { <<>>, <<Data(<<SyncAct(Num(1), Text(T_b1))>>)>> }

InitAuth ==
    /\ CatInit
    /\ EngineIdle
    /\ all_activities = <<>>
    /\ report = [status |-> "none"]
    /\ pc = "idle"
    /\ csv \in OldFiles
    /\ api \in [ gear : GearAnswers, pages : AuthPages ]
    /\ upc = "off"
    /\ gear_map = {}
    /\ old_gear_data = {}
    /\ page = 1
    /\ requested = <<>>
    /\ csv_before = <<>>
    /\ runs = 0
    /\ env \in [ client_id : EnvValues, client_secret : EnvValues, refresh_token : EnvValues ]
    /\ token_response \in TokenResponses
    /\ calls = <<>>
    /\ DateIdle /\ PageIdle

NextAuth ==
    \/ TokenExit /\ UNCHANGED <<catVars, engineVars, dateVars, dom>>
    \/ StartUpdate /\ UNCHANGED <<catVars, engineVars, dateVars, dom>>
    \/ ReadOldCsv /\ UNCHANGED <<catVars, engineVars, authVars, dateVars, dom>>
    \/ FetchPage /\ UNCHANGED <<catVars, engineVars, authVars, dateVars, dom>>
    \/ WriteCsv /\ UNCHANGED <<catVars, engineVars, authVars, dateVars, dom>>
    \/ SyncDashboard /\ UNCHANGED <<catVars, engineVars, authVars, dateVars, dom>>

SpecAuth == InitAuth /\ [][NextAuth]_vars

----------------------------------------------------------------------------
(* Streak Calculator (spec section 4.3).  A date is a day number, day 1 being
   a Monday; a record without a valid date carries NaT. *)

(* the length of one period in days *)
PeriodDays(u) == IF u = "week" THEN 7 ELSE 1

(* the start of the period a day falls in: the day itself, or the Monday of
   its week *)
PeriodStart(day, u) == IF u = "week" THEN day - ((day - 1) % 7) ELSE day

(* step 1: the distinct periods with at least one activity; records without a
   valid date are discarded *)
ActivePeriods(recs, u) ==
    { PeriodStart(recs[i].v, u) : i \in { j \in 1..Len(recs) : IsNum(recs[j]) } }

(* step 2: sort ascending *)
RECURSIVE SortAscending(_)
SortAscending(S) ==
    IF S = {} THEN <<>>
    ELSE LET least == CHOOSE x \in S : \A y \in S : x <= y
         IN  <<least>> \o SortAscending(S \ {least})

Range(start, end) == [start |-> start, end |-> end]

RECURSIVE ScanLongest_ResetToZero(_, _, _, _, _, _)
ScanLongest_ResetToZero(sorted, i, run, run_start, best, gap) ==
    IF i > Len(sorted) THEN best
    ELSE LET extends == sorted[i] - sorted[i - 1] = gap
             run2 == IF extends THEN run + 1 ELSE 0
             start2 == IF extends THEN run_start ELSE sorted[i]
             best2 == IF run2 > best.length
                      THEN [length |-> run2, range |-> Range(start2, sorted[i])]
                      ELSE best
         IN  ScanLongest_ResetToZero(sorted, i + 1, run2, start2, best2, gap)

(* step 3: scan consecutive pairs; a pair extends the run iff the gap is
   exactly one period; keep the maximum run and its start and end *)
RECURSIVE ScanLongest(_, _, _, _, _, _)
ScanLongest(sorted, i, run, run_start, best, gap) ==
    IF i > Len(sorted) THEN best
    ELSE LET extends == sorted[i] - sorted[i - 1] = gap
             run2 == IF extends THEN run + 1 ELSE 1
             start2 == IF extends THEN run_start ELSE sorted[i]
             best2 == IF run2 > best.length
                      THEN [length |-> run2, range |-> Range(start2, sorted[i])]
                      ELSE best
         IN  ScanLongest(sorted, i + 1, run2, start2, best2, gap)

LongestStreak(sorted, gap) ==
    IF sorted = <<>> THEN [length |-> 0, range |-> None]
    ELSE ScanLongest(sorted, 2, 1, sorted[1],
                     [length |-> 1, range |-> Range(sorted[1], sorted[1])], gap)

(* step 4: walk backward from the most recent period while the gap remains
   exactly one period *)
RECURSIVE WalkBack_AnyGap(_, _, _)
WalkBack_AnyGap(sorted, i, gap) ==
    IF i > 1 THEN 1 + WalkBack_AnyGap(sorted, i - 1, gap) ELSE 1

RECURSIVE WalkBack(_, _, _)
WalkBack(sorted, i, gap) ==
    IF i > 1 /\ sorted[i] - sorted[i - 1] = gap
    THEN 1 + WalkBack(sorted, i - 1, gap)
    ELSE 1

(* step 4: the current streak is active only if the most recent period with
   activity is the current period or the one before it *)
CurrentStreak(sorted, gap, current_period) ==
    IF sorted = <<>> THEN 0
    ELSE LET last == sorted[Len(sorted)]
         IN  IF last = current_period \/ last = current_period - gap
             THEN WalkBack(sorted, Len(sorted), gap)
             ELSE 0

compute_streaks(recs, u, reference) ==
    LET sorted == SortAscending(ActivePeriods(recs, u))
        longest == LongestStreak(sorted, PeriodDays(u))
    IN  [ status |-> "ok",
          current_length |-> CurrentStreak(sorted, PeriodDays(u), PeriodStart(reference, u)),
          longest_length |-> longest.length,
          longest_range |-> longest.range ]

(* dates of records: three days in a row, two more a week later, one in the
   third week, and a record without a valid date *)
StreakDates == { Num(1), Num(2), Num(3), Num(8), Num(9), Num(16), NaT }

(* activities on days 1,2,3,5,6,7,8, in order and shuffled *)
WeekOfDays == <<Num(1), Num(2), Num(3), Num(5), Num(6), Num(7), Num(8)>>
WeekOfDaysShuffled == <<Num(6), Num(1), Num(8), Num(3), Num(5), Num(2), Num(7)>>

ReferenceDays == { 3, 9, 10, 17, 30 }

ComputeStreaks ==
    /\ epc = "idle"
    /\ streaks' = compute_streaks(records, unit, now)
    /\ epc' = "streaks"
    /\ UNCHANGED <<records, unit, now, current_year_records, prior_year_records,
                   reference_day_of_year, is_latest_year, comparison>>

InitStreak ==
    /\ CatInit /\ PipeIdle /\ SyncIdle /\ AuthIdle /\ DateIdle /\ PageIdle
    /\ records \in SeqsUpTo(StreakDates, MaxRows) \cup { WeekOfDays, WeekOfDaysShuffled }
    /\ unit \in { "day", "week" }
    /\ now \in ReferenceDays
    /\ streaks = [status |-> "none"]
    /\ current_year_records = <<>>
    /\ prior_year_records = <<>>
    /\ reference_day_of_year = 0
    /\ is_latest_year = FALSE
    /\ comparison = [status |-> "none"]
    /\ epc = "idle"

NextStreak == ComputeStreaks /\ UNCHANGED <<catVars, pipeVars, syncVars, authVars, dateVars, dom>>

SpecStreak == InitStreak /\ [][NextStreak]_vars

----------------------------------------------------------------------------
(* Temporal Comparator (spec section 4.4).  Its records are rows of df_clean
   and a year's summary is the aggregate of agg_jaar_totaal. *)

DaysBeforeMonth == <<0, 31, 59, 90, 120, 151, 181, 212, 243, 273, 304, 334>>

IsLeapYear(y) == y % 4 = 0 /\ (y % 100 # 0 \/ y % 400 = 0)

(* day_of_year of a parsed date *)
DayOfYear(datum) ==
    DaysBeforeMonth[datum.m] + datum.d
    + (IF IsLeapYear(datum.y) /\ datum.m > 2 THEN 1 ELSE 0)

NoBaseline == [k |-> "no baseline"]

(* the prior-year records the baseline is aggregated over *)
BaselineRecords(prior, reference, latest) ==
    LET UpTo(row) == DayOfYear(row.Datum) <= reference
    IN  IF latest THEN SelectSeq(prior, UpTo) ELSE prior

(* the signed delta of one metric; without a prior year there is none *)
Delta_ZeroBaseline(has_prior, current, baseline) == Num(current - baseline)

Delta(has_prior, current, baseline) ==
    IF has_prior THEN Num(current - baseline) ELSE NoBaseline

compare(current, prior, reference, latest) ==
    LET cur == Totaal(current)
        base == Totaal(BaselineRecords(prior, reference, latest))
        has_prior == prior # <<>>
    IN  [ status |-> "ok",
          current |-> cur,
          baseline |-> IF has_prior THEN base ELSE NoBaseline,
          delta |->
            [ count |-> Delta(has_prior, cur.Aantal_Activiteiten, base.Aantal_Activiteiten),
              distance |-> Delta(has_prior, cur.Totaal_Afstand_km, base.Totaal_Afstand_km),
              time |-> Delta(has_prior, cur.Totaal_Tijd_sec, base.Totaal_Tijd_sec),
              elevation |-> Delta(has_prior, cur.Totaal_Stijging_m, base.Totaal_Stijging_m) ] ]

(* a row of the file, and its normalised record: its row of df_clean *)
YearRow(datum, afstand) ==
    ExportRow(datum, Text(T_Fietsrit), Num(afstand), Num(3600), Num(100), Num(50), Num(140))

YearRecord(datum, afstand) == CleanRow(<<YearRow(datum, afstand)>>, 1)

(* day 50, day 100 and day 150 of 2024, and day 100 and day 120 of 2025 *)
Day50 == YearRecord(Nl(19, <<"f","e","b">>, 2024), 1000)
Day100 == YearRecord(Nl(9, <<"a","p","r">>, 2024), 2000)
Day150 == YearRecord(Nl(29, <<"m","e","i">>, 2024), 4000)
PriorYearRecords == { Day50, Day100, Day150 }
CurrentYearRecords ==
    { YearRecord(Nl(10, <<"a","p","r">>, 2025), 3000),
      YearRecord(Nl(30, <<"a","p","r">>, 2025), 500) }

ReferenceDaysOfYear == { 50, 100, 120 }

(* the file with the same days: day 50 and day 150 of 2024, day 100 of 2025 *)
YearRows ==
    { YearRow(Nl(19, <<"f","e","b">>, 2024), 1000),
      YearRow(Nl(29, <<"m","e","i">>, 2024), 4000),
      YearRow(Nl(10, <<"a","p","r">>, 2025), 3000) }

InitYears == CatInit /\ DashIdle /\ SyncIdle /\ AuthIdle /\ DateIdle /\ PageIdle /\ EngineIdle /\ csv \in SeqsUpTo(YearRows, MaxRows + 1)

SpecYears == InitYears /\ [][NextDash]_vars

Compare ==
    /\ epc = "idle"
    /\ comparison' = compare(current_year_records, prior_year_records,
                             reference_day_of_year, is_latest_year)
    /\ epc' = "compared"
    /\ UNCHANGED <<records, unit, now, streaks, current_year_records,
                   prior_year_records, reference_day_of_year, is_latest_year>>

InitCompare ==
    /\ CatInit /\ PipeIdle /\ SyncIdle /\ AuthIdle /\ DateIdle /\ PageIdle
    /\ records = <<>>
    /\ unit = "day"
    /\ now = 0
    /\ streaks = [status |-> "none"]
    /\ current_year_records \in SeqsUpTo(CurrentYearRecords, 2)
    /\ prior_year_records \in SeqsUpTo(PriorYearRecords, MaxRows)
    /\ reference_day_of_year \in ReferenceDaysOfYear
    /\ is_latest_year \in BOOLEAN
    /\ comparison = [status |-> "none"]
    /\ epc = "idle"

NextCompare == Compare /\ UNCHANGED <<catVars, pipeVars, syncVars, authVars, dateVars, dom>>

SpecCompare == InitCompare /\ [][NextCompare]_vars

----------------------------------------------------------------------------
(* dashboard.html in a browser: the sections, buttons, filters, table rows
   and heart-rate elements the script of the page works on.  The script is
   the last element of the body, so no handler runs before the document is
   parsed. *)

T_ALL == <<"A", "L", "L">>
CORRECT_PASSWORD == Text(<<"j","o","r","d","e","n","l","o","r","e">>)

(* what prompt() returns: the text typed, '' for an empty OK, null for Cancel *)
PromptAnswers == { CORRECT_PASSWORD, Text(<<"j","o","r","d","e","n">>), Text(<<>>), None }

(* the id of the section, the button and the filter of a year *)
ViewId(jaar) == ToString(jaar)

(* the elements of class hr-hidden of one section: the cell of every table
   row, the span of the total card and the spans of the sport cards with a
   mean heart rate above 0 *)
HasHeartRate(summary) ==
    summary.Gemiddelde_Hartslag # NaN /\ summary.Gemiddelde_Hartslag.sum > 0

HrElements(table, total, sports) ==
    { [el |-> "td", of |-> i] : i \in 1..Len(table) }
    \cup (IF HasHeartRate(total) THEN { [el |-> "total card", of |-> 0] } ELSE {})
    \cup { [el |-> "sport card", of |-> n] :
             n \in 1..Cardinality({ s \in DOMAIN sports : HasHeartRate(sports[s]) }) }

(* the document as genereer_html_dashboard writes it, lines 536-650 and
   900-935, from the report *)
Document(rep) ==
    LET jaren == DOMAIN rep.detail_jaar
        views == { "Globaal" } \cup { ViewId(j) : j \in jaren }
        JaarOf(v) == CHOOSE j \in jaren : ViewId(j) = v
        table(v) == IF v = "Globaal" THEN rep.detail_Globaal ELSE rep.detail_jaar[JaarOf(v)]
        total(v) == IF v = "Globaal" THEN rep.agg_alle_jaren
                    ELSE rep.agg_jaar_totaal[JaarOf(v)]
        sports(v) ==
            IF v = "Globaal" THEN rep.agg_totaal
            ELSE [ key \in { k \in DOMAIN rep.agg_jaar : k[1] = JaarOf(v) } |-> rep.agg_jaar[key] ]
    IN  [ k |-> "parsed",
          display |-> [ v \in views |-> IF v = "Globaal" THEN "" ELSE "none" ],
          active |-> [ v \in views |-> v = "Globaal" ],
          options |-> { Text(T_ALL) } \cup TypeKeys(rep.df_clean),
          filter |-> [ v \in views |-> Text(T_ALL) ],
          rows |-> [ v \in views |-> [ i \in 1..Len(table(v)) |-> table(v)[i].Activiteitstype ] ],
          row_display |-> [ v \in views |-> [ i \in 1..Len(table(v)) |-> "" ] ],
          hr_hidden |-> [ v \in views |->
                            [ e \in HrElements(table(v), total(v), sports(v)) |-> TRUE ] ],
          button_display |-> [ v \in views |-> "" ],
          password |-> Unset ]

(* filterDetailTabel(sectie_id), lines 961-982 *)
filterDetailTabel(d, sectie_id) ==
    LET selected_activity == d.filter[sectie_id]
    IN  [ d EXCEPT !.row_display[sectie_id] =
            [ i \in DOMAIN d.rows[sectie_id] |->
                IF selected_activity = Text(T_ALL) \/ d.rows[sectie_id][i] = selected_activity
                THEN "" ELSE "none" ] ]

(* showView(view_id, event), lines 941-959, from the button of view_id *)
showView_KeepsOthers(d, view_id) ==
    filterDetailTabel(
        [ d EXCEPT !.display[view_id] = "block",
                   !.active[view_id] = TRUE,
                   !.filter[view_id] = Text(T_ALL) ],
        view_id)

showView(d, view_id) ==
    filterDetailTabel(
        [ d EXCEPT !.display = [ v \in DOMAIN d.display |-> IF v = view_id THEN "block" ELSE "none" ],
                   !.active = [ v \in DOMAIN d.active |-> v = view_id ],
                   !.filter[view_id] = Text(T_ALL) ],
        view_id)

(* revealHeartRate(event), lines 984-1010, with the answer to its prompt *)
revealHeartRate_AnyAnswer(d, answer) ==
    IF \A v \in DOMAIN d.hr_hidden : \A e \in DOMAIN d.hr_hidden[v] : ~d.hr_hidden[v][e]
    THEN d
    ELSE IF answer # None
    THEN [ d EXCEPT !.password = answer,
                    !.hr_hidden = [ v \in DOMAIN d.hr_hidden |->
                                      [ e \in DOMAIN d.hr_hidden[v] |-> FALSE ] ],
                    !.button_display = [ v \in DOMAIN d.button_display |-> "none" ] ]
    ELSE [ d EXCEPT !.password = answer ]

revealHeartRate(d, answer) ==
    IF \A v \in DOMAIN d.hr_hidden : \A e \in DOMAIN d.hr_hidden[v] : ~d.hr_hidden[v][e]
    THEN d
    ELSE IF answer = CORRECT_PASSWORD
    THEN [ d EXCEPT !.password = answer,
                    !.hr_hidden = [ v \in DOMAIN d.hr_hidden |->
                                      [ e \in DOMAIN d.hr_hidden[v] |-> FALSE ] ],
                    !.button_display = [ v \in DOMAIN d.button_display |-> "none" ] ]
    ELSE [ d EXCEPT !.password = answer ]

(* the browser opens the file the dashboard wrote *)
OpenPage ==
    /\ dom.k = "closed"
    /\ pc = "generated"
    /\ report.status = "ok"
    /\ dom' = Document(report)
    /\ UNCHANGED pipeVars

(* the listener of lines 1014-1020 *)
DOMContentLoaded ==
    /\ dom.k = "parsed"
    /\ dom' = [ dom EXCEPT !.k = "ready",
                           !.display["Globaal"] = "block",
                           !.active["Globaal"] = TRUE ]
    /\ UNCHANGED pipeVars

(* a click on a button of the navigation *)
ClickView ==
    /\ dom.k = "ready"
    /\ \E view_id \in DOMAIN dom.display : dom' = showView(dom, view_id)
    /\ UNCHANGED pipeVars

(* the select of the section on display gets another value: onchange *)
SelectFilter ==
    /\ dom.k = "ready"
    /\ \E sectie_id \in DOMAIN dom.display, value \in dom.options :
          /\ dom.display[sectie_id] # "none"
          /\ value # dom.filter[sectie_id]
          /\ dom' = filterDetailTabel([ dom EXCEPT !.filter[sectie_id] = value ], sectie_id)
    /\ UNCHANGED pipeVars

(* a click on the heart button of the section on display, and the answer
   given to the prompt *)
ClickReveal ==
    /\ dom.k = "ready"
    /\ \E v \in DOMAIN dom.display, answer \in PromptAnswers :
          /\ dom.display[v] # "none"
          /\ dom.button_display[v] # "none"
          /\ dom' = revealHeartRate(dom, answer)
    /\ UNCHANGED pipeVars

(* rows of the file behind the page: two years, two sports, with and
   without a heart rate *)
PageRows ==
    { ExportRow(Jan2024, Text(T_Fietsrit), Num(1000), Num(3600), Num(100), Num(50), Num(140)),
      ExportRow(Jan2024, Text(T_Hardloopsessie), Num(500), Num(1800), Num(20), Num(30), NaN),
      ExportRow(Mrt2025, Text(T_Hardloopsessie), Num(500), Num(1800), Num(20), Num(30), Num(150)) }

InitPage ==
    /\ CatInit /\ DashIdle /\ SyncIdle /\ AuthIdle /\ DateIdle /\ PageIdle /\ EngineIdle
    /\ csv \in SeqsUpTo(PageRows, MaxRows)

NextPage ==
    \/ RunDashboard /\ UNCHANGED <<catVars, syncVars, engineVars, authVars, dateVars, dom>>
    \/ OpenPage /\ UNCHANGED <<catVars, syncVars, engineVars, authVars, dateVars>>
    \/ DOMContentLoaded /\ UNCHANGED <<catVars, syncVars, engineVars, authVars, dateVars>>
    \/ ClickView /\ UNCHANGED <<catVars, syncVars, engineVars, authVars, dateVars>>
    \/ SelectFilter /\ UNCHANGED <<catVars, syncVars, engineVars, authVars, dateVars>>
    \/ ClickReveal /\ UNCHANGED <<catVars, syncVars, engineVars, authVars, dateVars>>

SpecPage == InitPage /\ [][NextPage]_vars

----------------------------------------------------------------------------
(* The keyword rules of get_activity_icon, in the order of its if/elif chain:
   <<keywords, result>> *)
RULES ==
    << <<{T_Zwemmen}, "Swimming">>,
       <<{T_VirtueleFietsrit}, "IndoorCycling">>,
       <<{T_Fiets}, "Cycling">>,
       <<{T_Training}, "Strength">>,
       <<{T_Wandel, T_Hike}, "Walking">>,
       <<{T_Hardloop}, "Running">> >>

RuleMatches(i, s) == \E k \in RULES[i][1] : Contains(s, k)

SwimRule == 1
VirtualRule == 2
CyclingRule == 3
TrainingRule == 4

(* the closed enumeration Category of the data model *)
Categories ==
    { "Cycling", "IndoorCycling", "Running", "Walking", "Swimming",
      "Strength", "Racquet", "Other" }

Categorized == cat_pc = "done"
TheLabel == Str(Activiteitstype)

(* C1 as stated: every label that matches the virtual-ride rule and the
   'Training' rule, or the virtual-ride rule and the generic cycling rule, is
   categorised as virtual/indoor cycling. *)
C1_VirtualAlwaysWins ==
    (/\ Categorized
     /\ RuleMatches(VirtualRule, TheLabel)
     /\ RuleMatches(TrainingRule, TheLabel) \/ RuleMatches(CyclingRule, TheLabel))
    => icon = "IndoorCycling"

(* C1 amended: the result is that of the first rule, in the fixed order
   swimming, virtual ride, cycling, training, walking, running, that matches;
   so a label that matches the virtual-ride rule is never categorised as
   strength or plain cycling, and is categorised as virtual/indoor cycling
   unless it also matches the swimming rule, which is evaluated before it. *)
C1_FirstMatchWins ==
    Categorized =>
        /\ \A i \in 1..Len(RULES) :
              (RuleMatches(i, TheLabel) /\ \A j \in 1..(i - 1) : ~RuleMatches(j, TheLabel))
              => icon = RULES[i][2]
        /\ RuleMatches(VirtualRule, TheLabel) =>
              /\ icon \notin {"Strength", "Cycling"}
              /\ ~RuleMatches(SwimRule, TheLabel) => icon = "IndoorCycling"

(* C1 witness: a categorised label that matches the virtual-ride, the cycling
   and the 'Training' rule *)
C1_Witness ==
    /\ Categorized
    /\ RuleMatches(VirtualRule, TheLabel)
    /\ RuleMatches(TrainingRule, TheLabel)
    /\ RuleMatches(CyclingRule, TheLabel)
    /\ icon = "IndoorCycling"

(* C2 as stated: keyword matching is case-insensitive, so a label and every
   label that differs from it only in letter case get the same category, and
   a label the chart filter takes for a sport is not categorised as Other. *)
C2_CaseInsensitive ==
    (Categorized /\ IsText(Activiteitstype)) =>
        /\ \A l \in Labels :
              (IsText(l) /\ Lower(l.s) = Lower(Activiteitstype.s))
              => get_activity_icon(l) = icon
        /\ in_charts => icon # "Other"

(* C3: categorisation returns, for every input (an unmapped Strava type, a
   null type and an empty label included), one value of the closed set of
   categories, and returns Other exactly when no keyword rule matches. *)
C3_TotalAndClosed ==
    Categorized =>
        /\ icon \in Categories
        /\ icon = "Other" <=> \A i \in 1..Len(RULES) : ~RuleMatches(i, TheLabel)

(* C3 witness: an activity whose type is null has been categorised as Other *)
C3_Witness ==
    /\ Categorized
    /\ act_type = None
    /\ Activiteitstype = NaN
    /\ icon = "Other"

----------------------------------------------------------------------------
(* Statements about the reports.  They are stated over the rows of the file,
   not over the intermediate frames of the dashboard. *)

Generated == pc = "generated" /\ report.status = "ok"

RECURSIVE SetSum(_, _)
SetSum(S, f) ==
    IF S = {} THEN 0
    ELSE LET x == CHOOSE y \in S : TRUE
         IN  f[x] + SetSum(S \ {x}, f)

(* a date text that reads as a date: day, Dutch month abbreviation, year *)
Readable(cell) == cell.k = "nl" /\ \E m \in 1..12 : maanden[m] = cell.mon

(* the number a cell of the file stands for; nothing counts as 0 *)
Value(cell) == IF cell.k \in {"num", "comma"} THEN cell.v ELSE 0
HasValue(cell) == cell.k \in {"num", "comma"}

(* the speed of a row in tenths of a km/h *)
SpeedKmh(cell) == (cell.v * 36) \div 10

Records == 1..Len(csv)
Typed == { i \in Records : ~IsNaN(csv[i].Activiteitstype) }
Dated == { i \in Typed : Readable(csv[i].Datum_van_activiteit) }
Undated == Typed \ Dated

(* the records of the file of one year and one activity type *)
RecordsOf(jaar, type) ==
    { i \in Dated : csv[i].Datum_van_activiteit.y = jaar /\ csv[i].Activiteitstype = type }

CountIn(table) ==
    SetSum(DOMAIN table, [key \in DOMAIN table |-> table[key].Aantal_Activiteiten])

(* C4 as stated: the session counts of the per-year per-type summaries add up
   to the number of included records, which is the session count of the
   all-years total card and the sum of the per-type all-years counts. *)
C4_CountsAddUp ==
    Generated =>
        /\ CountIn(report.agg_jaar) = report.agg_alle_jaren.Aantal_Activiteiten
        /\ CountIn(report.agg_totaal) = report.agg_alle_jaren.Aantal_Activiteiten
        /\ report.agg_alle_jaren.Aantal_Activiteiten = Len(report.df_clean)

(* C5 as stated: a record whose date cannot be parsed is excluded from the
   per-year summaries, the per-type all-years summaries, the all-years total
   card and the detail list, and does not abort the generation. *)
C5_UndatedDropped ==
    /\ Generated =>
          /\ CountIn(report.agg_jaar) = Cardinality(Dated)
          /\ CountIn(report.agg_totaal) = Cardinality(Dated)
          /\ report.agg_alle_jaren.Aantal_Activiteiten = Cardinality(Dated)
          /\ Len(report.detail_Globaal) = Cardinality(Dated)
    /\ (pc = "generated" /\ Dated # {}) => report.status = "ok"

(* C10: for each (year, type) group the summary's session count is the number
   of records of the group, and its total distance, time and elevation are the
   sums of the field over exactly those records, a missing elevation counting
   as 0; there is one summary for each year and type with a record. *)
C10_GroupTotals ==
    Generated =>
        /\ DOMAIN report.agg_jaar =
              { <<csv[i].Datum_van_activiteit.y, csv[i].Activiteitstype>> : i \in Dated }
        /\ \A key \in DOMAIN report.agg_jaar :
              LET group == RecordsOf(key[1], key[2])
                  summary == report.agg_jaar[key]
                  Afstand == [i \in group |-> Value(csv[i].Afstand)]
                  Tijd == [i \in group |-> Value(csv[i].Beweegtijd)]
                  Stijging == [i \in group |-> Value(csv[i].Totale_stijging)]
              IN  /\ summary.Aantal_Activiteiten = Cardinality(group)
                  /\ summary.Totaal_Afstand_km = SetSum(group, Afstand)
                  /\ summary.Totaal_Tijd_sec = SetSum(group, Tijd)
                  /\ summary.Totaal_Stijging_m = SetSum(group, Stijging)

(* C10 witness: a generated report with a group of two or more records, one
   with and one without an elevation *)
C10_Witness ==
    /\ Generated
    /\ \E key \in DOMAIN report.agg_jaar :
          /\ report.agg_jaar[key].Aantal_Activiteiten >= 2
          /\ report.agg_jaar[key].Totaal_Stijging_m > 0
          /\ \E i \in RecordsOf(key[1], key[2]) : IsNaN(csv[i].Totale_stijging)

----------------------------------------------------------------------------
(* Statements about the file update_csv writes.  Every activity of the
   modelled responses has an id, so row i is built from activity i. *)

Updated == pc = "updated" /\ all_activities # <<>>

Absent(field) == field = Missing \/ field = None
Unparseable(field) == ~IsNum(field) /\ ~Absent(field)

(* C6 as stated: an activity without a heart rate or without an average speed
   gets no value for it in the file (an absent cell, never 0), so that it
   contributes nothing to the means. *)
C6_MissingMetricAbsent ==
    Updated =>
        /\ Len(csv) = Len(all_activities)
        /\ \A i \in 1..Len(all_activities) :
              /\ Absent(all_activities[i].average_heartrate)
                    => IsNaN(csv[i].Gemiddelde_hartslag)
              /\ Absent(all_activities[i].average_speed)
                    => IsNaN(csv[i].Gemiddelde_snelheid)

(* C7 as stated: a distance or moving time that is no number becomes 0, a
   heart rate or speed that is no number becomes absent, and the record is
   kept. *)
C7_UnparseableCoerced ==
    Updated =>
        /\ Len(csv) = Len(all_activities)
        /\ \A i \in 1..Len(all_activities) :
              /\ Unparseable(all_activities[i].distance)
                    => HasValue(csv[i].Afstand) /\ Value(csv[i].Afstand) = 0
              /\ Unparseable(all_activities[i].moving_time)
                    => HasValue(csv[i].Beweegtijd) /\ Value(csv[i].Beweegtijd) = 0
              /\ Unparseable(all_activities[i].average_speed)
                    => IsNaN(csv[i].Gemiddelde_snelheid)
              /\ Unparseable(all_activities[i].average_heartrate)
                    => IsNaN(csv[i].Gemiddelde_hartslag)

----------------------------------------------------------------------------
(* Statements about the records ("Langste ...", "Snelste Gem. ...") *)

(* a speed, in tenths of a km/h, outside any plausible band: over 100 km/h *)
Implausible(v) == v > 1000

Speeds(group) ==
    { SpeedKmh(csv[i].Gemiddelde_snelheid) :
        i \in { j \in group : HasValue(csv[j].Gemiddelde_snelheid) } }
Distances(group) ==
    { Value(csv[i].Afstand) : i \in { j \in group : HasValue(csv[j].Afstand) } }
Durations(group) ==
    { Value(csv[i].Beweegtijd) : i \in { j \in group : HasValue(csv[j].Beweegtijd) } }

Largest(S) == CHOOSE v \in S : \A w \in S : w <= v

(* C8 as stated: in a group with a session of implausible speed and sessions
   of plausible speed, the fastest record is the fastest plausible session,
   and the implausible session still counts in the session count and the
   distance and time totals. *)
C8_GlitchExcluded ==
    Generated =>
        \A key \in DOMAIN report.agg_jaar :
            LET group == RecordsOf(key[1], key[2])
                summary == report.agg_jaar[key]
                plausible == { v \in Speeds(group) : ~Implausible(v) }
            IN  (plausible # {} /\ \E v \in Speeds(group) : Implausible(v)) =>
                    /\ summary.Max_Gemiddelde_Snelheid_km_u = Num(Largest(plausible))
                    /\ summary.Aantal_Activiteiten = Cardinality(group)

(* the leaderboard a summary carries for a metric, as a list of values *)
top_records(summary, metric) ==
    LET best == CASE metric = "distance" -> summary.Max_Afstand_km
                  [] metric = "speed" -> summary.Max_Gemiddelde_Snelheid_km_u
                  [] metric = "duration" -> NaN
    IN  IF IsNum(best) THEN <<best.v>> ELSE <<>>

MetricValues(group, metric) ==
    CASE metric = "distance" -> Distances(group)
      [] metric = "speed" -> Speeds(group)
      [] metric = "duration" -> Durations(group)

Qualifying(group, metric) ==
    CASE metric = "distance" -> { i \in group : HasValue(csv[i].Afstand) }
      [] metric = "speed" -> { i \in group : HasValue(csv[i].Gemiddelde_snelheid) }
      [] metric = "duration" -> { i \in group : HasValue(csv[i].Beweegtijd) }

(* C9 as stated: for each (year, type) and each of distance, duration and
   average speed, the leaderboard lists the records with the largest values,
   3 of them or all when fewer qualify, largest first. *)
C9_TopThree ==
    Generated =>
        \A key \in DOMAIN report.agg_jaar :
            \A metric \in {"distance", "duration", "speed"} :
                LET group == RecordsOf(key[1], key[2])
                    board == top_records(report.agg_jaar[key], metric)
                    n == Cardinality(Qualifying(group, metric))
                IN  /\ Len(board) = IF n < 3 THEN n ELSE 3
                    /\ \A a, b \in 1..Len(board) : a < b => board[a] >= board[b]
                    /\ n > 0 => board[1] = Largest(MetricValues(group, metric))

(* C9 amended: for each (year, type) the summary carries one record per
   metric, for distance and for average speed only: the largest value among
   the group's records that have one, and nothing (NaN, no error) when no
   record of the group has one. *)
C9_SingleLargest ==
    Generated =>
        \A key \in DOMAIN report.agg_jaar :
            \A metric \in {"distance", "speed"} :
                LET group == RecordsOf(key[1], key[2])
                    board == top_records(report.agg_jaar[key], metric)
                    values == MetricValues(group, metric)
                IN  /\ Len(board) = IF values = {} THEN 0 ELSE 1
                    /\ values # {} => board[1] = Largest(values)

(* C9 witness: a generated report with a group of two or more records of
   different speeds, whose record is the single largest one, and a group whose
   records have no speed, whose record is empty *)
C9_Witness ==
    /\ Generated
    /\ \E key \in DOMAIN report.agg_jaar :
          LET group == RecordsOf(key[1], key[2])
          IN  /\ Cardinality(Qualifying(group, "speed")) >= 2
              /\ Cardinality(Speeds(group)) >= 2
              /\ top_records(report.agg_jaar[key], "speed") = <<Largest(Speeds(group))>>
    /\ \E key \in DOMAIN report.agg_jaar :
          top_records(report.agg_jaar[key], "speed") = <<>>

----------------------------------------------------------------------------
(* Statements about runs of update_activities.py, step by step *)

RunDone == upc = "done"

(* C11: a second run of update_csv against the same answers of the API leaves
   the file as the first run left it, and generating the dashboard leaves the
   file alone and, from the file the current report was generated from, gives
   the same report again. *)
C11_Idempotent ==
    [][ /\ (upc = "merge" /\ runs = 2) => csv' = csv_before
        /\ (pc' = "generated" /\ UNCHANGED syncVars) =>
              /\ csv' = csv
              /\ report = genereer_html_dashboard(csv) => report' = report ]_vars

(* C11 witness: a second run has rewritten the file from the same activities,
   one of them with the gear the first run had taken from the old file *)
C11_Witness ==
    /\ RunDone
    /\ runs = 2
    /\ all_activities # <<>>
    /\ csv = csv_before
    /\ \E i \in 1..Len(csv) : csv[i].Uitrusting_voor_activiteit = Text(T_BikeB)

----------------------------------------------------------------------------
(* Statements about single bad records *)

Malformed == { i \in Records : csv[i] \in BadRows }

(* C12 as stated: with one record that has a missing or non-text name, an
   unparseable date or an unparseable number among records that are complete,
   the generation completes without raising and every other record is still
   processed. *)
C12_OneBadRecordTolerated ==
    (/\ pc = "generated"
     /\ Cardinality(Malformed) = 1
     /\ Records \ Malformed # {})
    => /\ report.status = "ok"
       /\ \A i \in Records \ Malformed :
             \E j \in 1..Len(report.df_clean) :
                 /\ report.df_clean[j].Activiteitstype = csv[i].Activiteitstype
                 /\ report.df_clean[j].Afstand_km = Num(Value(csv[i].Afstand))

----------------------------------------------------------------------------
(* Statements about the streaks *)

StreaksDone == epc = "streaks"

(* the periods with an activity, said without the calculator's steps *)
Periods ==
    { d - (IF unit = "week" THEN (d - 1) % 7 ELSE 0) :
        d \in { records[i].v : i \in { j \in 1..Len(records) : records[j] # NaT } } }

Step == IF unit = "week" THEN 7 ELSE 1

(* n periods in a row, the first one starting at a *)
IsRun(a, n) == \A k \in 0..(n - 1) : (a + k * Step) \in Periods

(* C13: for every record set, reference time and unit, the longest streak is
   at least as long as the current streak. *)
C13_LongestAtLeastCurrent ==
    StreaksDone => streaks.longest_length >= streaks.current_length

(* C13 witness: a live current streak shorter than the longest streak *)
C13_Witness ==
    /\ StreaksDone
    /\ streaks.current_length >= 1
    /\ streaks.longest_length > streaks.current_length

(* C14: the longest streak is the longest run of periods in a row, whatever
   the order of the records: its length is the largest n for which n periods
   in a row all have an activity, its range is such a run, exchanging two
   neighbouring records changes nothing, days 1,2,3,5,6,7,8 give 4 with range
   5 to 8, one date gives 1 and no dated record gives 0 without a range. *)
C14_LongestRun ==
    StreaksDone =>
        /\ \A n \in 1..(Cardinality(Periods) + 1) :
              (\E a \in Periods : IsRun(a, n)) <=> n <= streaks.longest_length
        /\ IF Periods = {}
           THEN streaks.longest_length = 0 /\ streaks.longest_range = None
           ELSE /\ IsRun(streaks.longest_range.start, streaks.longest_length)
                /\ streaks.longest_range.end =
                      streaks.longest_range.start + (streaks.longest_length - 1) * Step
        /\ Cardinality(Periods) = 1 => streaks.longest_length = 1
        /\ \A i \in 1..(Len(records) - 1) :
              compute_streaks([records EXCEPT ![i] = records[i + 1],
                                              ![i + 1] = records[i]], unit, now)
              = streaks
        /\ (unit = "day" /\ records \in { WeekOfDays, WeekOfDaysShuffled }) =>
              /\ streaks.longest_length = 4
              /\ streaks.longest_range = Range(5, 8)

(* C14 witness: the streaks of days 1,2,3,5,6,7,8, given out of order *)
C14_Witness ==
    /\ StreaksDone
    /\ unit = "day"
    /\ records = WeekOfDaysShuffled
    /\ streaks.longest_length = 4
    /\ streaks.longest_range = Range(5, 8)

----------------------------------------------------------------------------
(* Statements about the year comparison *)

Compared == epc = "compared"

(* the last day of the year a year of df_clean has a record on *)
ReferenceDay(year_records) ==
    LET days == { DayOfYear(year_records[i].Datum) : i \in 1..Len(year_records) }
    IN  CHOOSE d \in days : \A e \in days : e <= d

(* C15: the baseline of the year before the latest year with data is
   aggregated over exactly that year's records whose day of the year is at
   most the reference day (reference 100 with entries on day 50 and day 150
   keeps the day-50 entry only); the baseline of the year before any other
   year is that whole year. *)
C15_BaselineToDate ==
    (pc = "generated" /\ report.status = "ok") =>
        \A jaar \in DOMAIN report.agg_jaar_totaal :
            (jaar - 1) \in DOMAIN report.agg_jaar_totaal =>
                LET latest == \A j \in DOMAIN report.agg_jaar_totaal : j <= jaar
                    prior == GroupJaar(report.df_clean, jaar - 1)
                    reference == ReferenceDay(GroupJaar(report.df_clean, jaar))
                    kept == { i \in 1..Len(prior) :
                                latest => DayOfYear(prior[i].Datum) <= reference }
                    Afstand == [i \in kept |-> prior[i].Afstand_km.v]
                    baseline == report.agg_jaar_totaal[jaar - 1]
                IN  /\ baseline.Aantal_Activiteiten = Cardinality(kept)
                    /\ baseline.Totaal_Afstand_km = SetSum(kept, Afstand)

Metrics == { "count", "distance", "time", "elevation" }

(* C16: without records of the prior year the comparison does not raise and
   reports every delta as 'no baseline', which is no delta of zero, and a
   comparison leaves its two record sets as they were. *)
C16_NoBaseline ==
    [][ (epc = "idle" /\ epc' = "compared") =>
            /\ comparison'.status = "ok"
            /\ current_year_records' = current_year_records
            /\ prior_year_records' = prior_year_records
            /\ prior_year_records = <<>> =>
                  \A m \in Metrics :
                      /\ comparison'.delta[m] = NoBaseline
                      /\ comparison'.delta[m] # Num(0) ]_vars

(* C16 witness: a year with records compared with an empty prior year *)
C16_Witness ==
    /\ Compared
    /\ prior_year_records = <<>>
    /\ current_year_records # <<>>
    /\ comparison.delta.count = NoBaseline
    /\ comparison.current.Aantal_Activiteiten = Len(current_year_records)

----------------------------------------------------------------------------
(* Statements about the speed along fetch, file and dashboard *)

(* C17: the dashboard's conversion step succeeds on the speed column as
   update_csv writes it, and the speed it aggregates for every activity is
   the km/h value of the file, the Strava average_speed times 3.6 once. *)
C17_ConvertedOnce ==
    (pc = "generated" /\ all_activities # <<>> /\ csv = BuildRows(all_activities)) =>
        /\ report.status = "ok"
        /\ Len(report.df_clean) = Len(csv)
        /\ \A i \in 1..Len(csv) :
              report.df_clean[i].Gemiddelde_Snelheid_km_u
                  = to_numeric(csv[i].Gemiddelde_snelheid)

----------------------------------------------------------------------------
(* Statements about the gear column *)

(* the fetched activities that get a row: those with an id *)
Identified ==
    LET HasId(act) == act.id # Missing
    IN  SelectSeq(all_activities, HasId)

(* the name the athlete's gear list has for the gear of an activity *)
MapName(act) ==
    IF api.gear # Fail /\ act.gear_id # Missing
         /\ \E p \in api.gear.names : p[1] = act.gear_id
    THEN (CHOOSE p \in api.gear.names : p[1] = act.gear_id)[2]
    ELSE Text(<<>>)

(* the gear cell of the last row the previous file has for an activity *)
HasOldRow(act) == \E i \in 1..Len(csv_before) : csv_before[i].Activiteits_ID = act.id

OldCell(act) ==
    LET rows == { i \in 1..Len(csv_before) : csv_before[i].Activiteits_ID = act.id }
    IN  csv_before[CHOOSE i \in rows : \A j \in rows : j <= i].Uitrusting_voor_activiteit

(* the gear cell of the row written for the n-th identified activity *)
Written(n) == csv[n].Uitrusting_voor_activiteit

(* C18 as stated: the name of the gear map if it is not empty, else the gear
   value of the previous file for the same id, as it stands there, if it is
   not empty, else nothing. *)
C18_GearPrecedence_Verbatim ==
    (RunDone /\ Identified # <<>>) =>
        /\ Len(csv) = Len(Identified)
        /\ \A n \in 1..Len(csv) :
              LET act == Identified[n]
              IN  Written(n) =
                    IF MapName(act) # Text(<<>>) THEN MapName(act)
                    ELSE IF HasOldRow(act) /\ IsText(OldCell(act)) /\ OldCell(act).s # <<>>
                    THEN OldCell(act)
                    ELSE NaN

(* C18, amended: the name of the gear map if it is not empty; else the gear
   value of the previous file for the same id with its surrounding blanks
   stripped, if what is left is not empty and is not 'nan' in any case of
   letters; else nothing.  When the gear map cannot be fetched every
   activity keeps that stripped value. *)
C18_GearPrecedence ==
    (RunDone /\ Identified # <<>>) =>
        /\ Len(csv) = Len(Identified)
        /\ \A n \in 1..Len(csv) :
              LET act == Identified[n]
                  kept == IF HasOldRow(act) /\ IsText(OldCell(act))
                          THEN Strip(OldCell(act).s) ELSE <<>>
                  backup == IF kept # <<>> /\ Lower(kept) # T_nan
                            THEN Text(kept) ELSE NaN
              IN  /\ Written(n) = IF MapName(act) # Text(<<>>) THEN MapName(act)
                                  ELSE backup
                  /\ api.gear = Fail => Written(n) = backup

(* C18 witness: the gear list could not be fetched and the first activity
   keeps the gear its row had in the previous file *)
C18_Witness ==
    /\ RunDone
    /\ api.gear = Fail
    /\ Identified # <<>>
    /\ Identified[1].gear_id = Text(T_b1)
    /\ HasOldRow(Identified[1])
    /\ OldCell(Identified[1]) = Text(T_BikeB_Padded)
    /\ Written(1) = Text(T_BikeB)

----------------------------------------------------------------------------
(* Statements about the page loop *)

(* the ids of the rows of a file *)
IdsOf(file) == { file[i].Activiteits_ID : i \in 1..Len(file) }

(* the request for the last page asked for failed *)
LastRequestFailed == requested # <<>> /\ PageAnswer(requested[Len(requested)]) = Fail

(* C19: when the request for a page after the first fails, every activity of
   the file from before the run is in the file after the run. *)
C19_HistoryKept ==
    (RunDone /\ LastRequestFailed /\ Len(requested) >= 2) =>
        IdsOf(csv_before) \subseteq IdsOf(csv)

(* the pages that were answered with activities: the requests before the
   last one *)
RECURSIVE Concat(_)
Concat(lists) == IF lists = <<>> THEN <<>> ELSE Head(lists) \o Concat(Tail(lists))

(* C20: the pages are requested in the order 1, 2, 3, ..., each once; every
   request but the last was answered with activities and the last one failed
   or was answered with no activity; the collected list is the answers with
   activities, in order. *)
C20_PagesInOrder ==
    /\ \A n \in 1..Len(requested) : requested[n] = n
    /\ upc = "fetch" => page = Len(requested) + 1
    /\ \A n \in 1..(Len(requested) - 1) :
          PageAnswer(n) # Fail /\ PageAnswer(n).acts # <<>>
    /\ upc \in {"merge", "done"} =>
          /\ requested # <<>>
          /\ LET last == PageAnswer(Len(requested))
             IN  last = Fail \/ last.acts = <<>>
          /\ all_activities =
                Concat([n \in 1..(Len(requested) - 1) |-> PageAnswer(n).acts])

(* C20 witness: two pages with activities and a third request that ends the
   loop *)
C20_Witness ==
    /\ upc = "merge"
    /\ requested = <<1, 2, 3>>
    /\ Len(all_activities) = 2
    /\ all_activities[1] # all_activities[2]

----------------------------------------------------------------------------
(* Statements about the start of a run of update_activities.py *)

(* one of the three environment values is unset *)
SecretUnset ==
    env.client_id = None \/ env.client_secret = None \/ env.refresh_token = None

(* C21: when one of the client id, the client secret and the refresh token is
   unset, or the token request fails, a run that was started has ended with
   exit status 1, asked neither for the athlete nor for a page of
   activities, and left the file as it was. *)
C21_NoTokenNoRun ==
    (runs > 0 /\ (SecretUnset \/ token_response = Fail)) =>
        /\ upc = "exit 1"
        /\ \A n \in 1..Len(calls) : calls[n] # GET_athlete
        /\ requested = <<>>
        /\ csv = csv_before

(* C21 witness: the secrets are there, the token request was sent and failed,
   and the run ended with a file with rows untouched *)
C21_Witness ==
    /\ upc = "exit 1"
    /\ runs > 0
    /\ ~SecretUnset
    /\ token_response = Fail
    /\ calls = <<POST_token>>
    /\ csv # <<>>

----------------------------------------------------------------------------
(* Statements about the write of the file *)

(* C22: a run that built no row (the API returned no activity, the first
   page request failed, or no fetched activity has an id to build a row
   from) leaves the file as it was; a run that built rows has written one
   row for each of them. *)
C22_WrittenOnlyWithRows ==
    RunDone =>
        /\ Identified = <<>> => csv = csv_before
        /\ PageAnswer(1) = Fail => csv = csv_before
        /\ (PageAnswer(1) # Fail /\ PageAnswer(1).acts = <<>>) => csv = csv_before
        /\ Identified # <<>> => Len(csv) = Len(Identified)

(* C22 witness: activities were fetched, none of them has an id, and the
   file with its rows is as before *)
C22_Witness ==
    /\ RunDone
    /\ all_activities # <<>>
    /\ Identified = <<>>
    /\ csv # <<>>
    /\ csv = csv_before

----------------------------------------------------------------------------
(* Statements about the file update_csv writes as input of the dashboard *)

(* the dashboard ran on the file the last update wrote *)
FreshlyUpdated ==
    pc = "generated" /\ all_activities # <<>> /\ csv = BuildRows(all_activities)

(* C23: every column the dashboard selects after renaming is among the
   columns of a file update_csv wrote, and the dashboard on such a file gets
   as far as its aggregation. *)
C23_ColumnsPresent ==
    FreshlyUpdated =>
        /\ relevante_kolommen \subseteq DfColumns(csv)
        /\ \/ report.status = "ok"
           \/ report.status = "raised" /\ report.where \in { "aggregation", "detail table" }

----------------------------------------------------------------------------
(* Statements about the date on its way through the file *)

(* C24: the text format_date makes of a valid timestamp is read back by
   robust_date_parser_final as the same year, month, day, hour, minute and
   second, for every month; and format_date gives back what it was given
   when that is not a timestamp in the format of the API. *)
C24_DateRoundTrip ==
    /\ (date_text # Unset /\ strava_date \in StravaDates) =>
          /\ date_text.k = "nl"
          /\ date_text.mon = maanden[strava_date.m]
    /\ (date_parsed # Unset /\ strava_date \in StravaDates) =>
          /\ date_parsed # NaT
          /\ date_parsed.y = strava_date.y
          /\ date_parsed.m = strava_date.m
          /\ date_parsed.d = strava_date.d
          /\ date_parsed.time = strava_date.time
    /\ (date_text # Unset /\ strava_date \notin StravaDates) => date_text = strava_date

(* C24 witness: the 28th of March, five past nine and seven seconds, written
   as 'mrt' and read back *)
C24_Witness ==
    /\ strava_date = IsoZAt(2024, 3, 28, <<9, 5, 7>>)
    /\ date_text = NlAt(28, <<"m","r","t">>, 2024, <<"0","9",":","0","5",":","0","7">>)
    /\ date_parsed = DateAt(2024, 3, 28, <<9, 5, 7>>)

----------------------------------------------------------------------------
(* Statements about the monthly tables *)

(* the month of a dated row, counted from January of year 0 *)
MonthOf(row) == row.Datum.y * 12 + row.Datum.m - 1

(* the dated rows of df_clean *)
DatedRows == { i \in 1..Len(report.df_clean) : report.df_clean[i].Datum # NaT }

(* the months from the first to the last month with a dated row *)
MonthsCovered ==
    LET months == { MonthOf(report.df_clean[i]) : i \in DatedRows }
    IN  { p \in (2000 * 12)..(2030 * 12) :
            (\E m \in months : m <= p) /\ (\E m \in months : p <= m) }

(* C25: the monthly tables have one entry for every month from the first to
   the last month with an activity and every activity type, 0 where there
   was no activity, and for every year and type their entries add up to the
   session count and the distance of that year and type. *)
C25_MonthlyZeroFill ==
    (pc = "generated" /\ report.status = "ok") =>
        LET types == { report.df_clean[i].Activiteitstype : i \in 1..Len(report.df_clean) }
            sessions == report.agg_sessies_maand
            distance == report.agg_maand_base
        IN  /\ DOMAIN sessions = MonthsCovered \X types
            /\ DOMAIN distance = MonthsCovered \X types
            /\ \A key \in DOMAIN sessions :
                  (~\E i \in DatedRows :
                        /\ MonthOf(report.df_clean[i]) = key[1]
                        /\ report.df_clean[i].Activiteitstype = key[2])
                  => (sessions[key] = 0 /\ distance[key] = 0)
            /\ \A jaar \in { p \div 12 : p \in MonthsCovered }, type \in types :
                  LET months == { key \in DOMAIN sessions :
                                    key[1] \div 12 = jaar /\ key[2] = type }
                      in_year == <<jaar, type>> \in DOMAIN report.agg_jaar
                  IN  /\ SetSum(months, sessions) =
                            IF in_year
                            THEN report.agg_jaar[<<jaar, type>>].Aantal_Activiteiten
                            ELSE 0
                      /\ SetSum(months, distance) =
                            IF in_year
                            THEN report.agg_jaar[<<jaar, type>>].Totaal_Afstand_km
                            ELSE 0

(* C25 witness: a month with two sessions of a type, and a month between the
   first and the last without any, filled with 0 *)
C25_Witness ==
    /\ pc = "generated"
    /\ report.status = "ok"
    /\ \E key \in DOMAIN report.agg_sessies_maand :
          report.agg_sessies_maand[key] = 2 /\ report.agg_maand_base[key] > 0
    /\ \E key \in DOMAIN report.agg_sessies_maand :
          /\ report.agg_sessies_maand[key] = 0
          /\ \A other \in DOMAIN report.agg_sessies_maand :
                other[1] = key[1] => report.agg_sessies_maand[other] = 0

----------------------------------------------------------------------------
(* Heart-rate privacy and view switching of the generated page *)

Displayed(d) == { v \in DOMAIN d.display : d.display[v] # "none" }

ActiveButtons(d) == { v \in DOMAIN d.active : d.active[v] }

Unblurred(d) ==
    { ve \in UNION { { <<v, e>> : e \in DOMAIN d.hr_hidden[v] } : v \in DOMAIN d.hr_hidden } :
        ~d.hr_hidden[ve[1]][ve[2]] }

AllRevealed(d) ==
    /\ \A v \in DOMAIN d.hr_hidden : \A e \in DOMAIN d.hr_hidden[v] : ~d.hr_hidden[v][e]
    /\ \A v \in DOMAIN d.button_display : d.button_display[v] = "none"

(* C26: in the open page a heart-rate element is without its blur only when
   the correct password has been given to the prompt; an answer that is not
   the password, or a cancelled prompt, leaves every element, button,
   section and filter as it was; with the correct password given, every
   heart-rate element of every view is without blur and every reveal button
   is hidden, and no later step leaves that state. *)
C26_HeartRatePrivacy ==
    [][ dom'.k # "closed" =>
          /\ Unblurred(dom') # {} => dom'.password = CORRECT_PASSWORD
          /\ dom'.password = CORRECT_PASSWORD => AllRevealed(dom')
          /\ (dom.k # "closed" /\ dom'.password # dom.password
                /\ dom'.password # CORRECT_PASSWORD)
               => dom' = [ dom EXCEPT !.password = dom'.password ]
          /\ (dom.k # "closed" /\ AllRevealed(dom)) => AllRevealed(dom') ]_vars

(* the password was given in the section of a year, whose table cells and
   cards, like those of the other sections, lost their blur *)
C26_Witness ==
    /\ dom.k = "ready"
    /\ dom.password = CORRECT_PASSWORD
    /\ AllRevealed(dom)
    /\ Cardinality(DOMAIN dom.display) = 3
    /\ "Globaal" \notin Displayed(dom)
    /\ \A v \in DOMAIN dom.hr_hidden : Cardinality(DOMAIN dom.hr_hidden[v]) >= 3

(* C27: in the open page, from the parsed document on and after every click,
   exactly one section is on display and exactly one button of the
   navigation is active, the one of that section; a step that puts another
   section on display leaves its filter on 'ALL' and all rows of its table
   visible. *)
C27_OneViewShown ==
    [][ dom'.k # "closed" =>
          /\ Cardinality(Displayed(dom')) = 1
          /\ ActiveButtons(dom') = Displayed(dom')
          /\ (dom.k # "closed" /\ Displayed(dom') # Displayed(dom))
               => \A v \in Displayed(dom') :
                     /\ dom'.filter[v] = Text(T_ALL)
                     /\ \A i \in DOMAIN dom'.row_display[v] : dom'.row_display[v][i] = "" ]_vars

(* a year is on display with its filter on 'ALL' while another section still
   has the filter, and the hidden rows, it was left with *)
C27_Witness ==
    /\ dom.k = "ready"
    /\ Displayed(dom) = { "2025" }
    /\ dom.filter["2025"] = Text(T_ALL)
    /\ \E v \in DOMAIN dom.filter :
          /\ dom.filter[v] # Text(T_ALL)
          /\ \E i \in DOMAIN dom.row_display[v] : dom.row_display[v][i] = "none"
          /\ \E i \in DOMAIN dom.row_display[v] : dom.row_display[v][i] = ""

====
